---- MODULE Spec2Model ----
(***************************************************************************)
(* Verification model of the speech-to-text-python repository:             *)
(*   - coqui_xtts_app/app/text_utils.py : sanitize_text       (SpecText)   *)
(*   - app/voice_data.py                : parse_voice_config  (SpecVoice)  *)
(*   - coqui_xtts_app/app/text_utils.py : ensure_text_within_limit         *)
(*                                                            (SpecLimit)  *)
(*   - coqui_xtts_app/app/main.py, ui.py, cli.py : one synthesis request   *)
(*     through main_cli or generate_audio and synthesize_to_wav            *)
(*                                                            (SpecSynth)  *)
(*   - app/interface.py : concurrent callers of _get_voice_metadata        *)
(*                                                            (SpecCache)  *)
(*   - coqui_xtts_app/app/main.py : concurrent callers of get_tts and      *)
(*     synthesize_to_wav                                      (SpecEngine) *)
(*   - app/interface.py, app/tts.py : the voice selection, the piper       *)
(*     command and the polling of the piper process           (SpecPiper)  *)
(*   - coqui_tts_local.py : _salvar_audio_com_progresso       (SpecWav)    *)
(*                                                                         *)
(* Text is a sequence of characters.  A character is a string; non-ASCII   *)
(* characters are written by code point ("U+2026").                        *)
(* Floats are exact decimals counted in millionths (1.2 is 1200000); NaN,  *)
(* the infinities and -0.0 are not among the inputs.                       *)
(***************************************************************************)
EXTENDS Integers, Sequences, FiniteSets, TLC

VARIABLES
    text,       \* the text argument of the operation under study
    cleaned,    \* sanitize_text(text)
    recleaned,  \* sanitize_text(sanitize_text(text))
    tpc,        \* "raw" -> "clean" -> "reclean"; "off" outside SpecText
    config_data, \* load_voice_metadata: the configuration record json.load returned
    halfway,    \* how the doubles of this run round at half-way decimals
    variations, \* what _generate_numeric_variations returned, per parameter
    outcome,    \* what parse_voice_config returned or raised
    vpc,        \* "config" -> "parsed"; "off" outside SpecVoice
    limit,      \* ensure_text_within_limit: the limit argument, <<>> for None
    verdict,    \* "call", then "None" (returned) or "ValueError"; "off" outside SpecLimit
    request,    \* the arguments of main_cli or generate_audio
    engine,     \* the attributes of the object the TTS constructor yields
    spc,        \* the statement the request is at; "off" outside SpecSynth
    sanitized,  \* generate_audio: sanitized
    call,       \* the arguments synthesize_to_wav was called with: <<>> or <<record>>
    sanitized_text,    \* synthesize_to_wav: sanitized_text
    _TTS_INSTANCE,     \* main._TTS_INSTANCE: <<>> for None
    _LANGUAGES_CACHE,  \* main._LANGUAGES_CACHE: <<>> for None, else <<names>>
    _SPEAKERS_CACHE,   \* main._SPEAKERS_CACHE: <<>> for None, else <<names>>
    trace,      \* the calls of the TTS constructor and of tts_to_file so far
    raised,     \* the exception synthesize_to_wav raised, if any
    result,     \* what main_cli or generate_audio returned
    _VOICE_CACHE,  \* interface._VOICE_CACHE: its items in insertion order
    callers,    \* the threads that run callbacks of interface.py
    derived,    \* per voice name, how many times load_voice_metadata has returned
    received,   \* per voice name, the objects _get_voice_metadata has returned
    _MODEL_LOCK,   \* main._MODEL_LOCK: <<>> when free, else <<holder>>
    workers,    \* the threads that call into main.py
    constructed,   \* how many times the TTS constructor has returned an object
    obtained,   \* the objects get_tts has returned
    ui,         \* interface.py: the voice and the labels the dropdowns show
    job,        \* interface.synthesize: its arguments, locals and outcome
    child,      \* the piper process and the pipe from its stdout
    wav         \* _salvar_audio_com_progresso: its locals, the file and the log

textVars == <<text, cleaned, recleaned, tpc>>

voiceVars == <<config_data, halfway, variations, outcome, vpc>>

limitVars == <<limit, verdict>>

processVars == <<_TTS_INSTANCE, _LANGUAGES_CACHE, _SPEAKERS_CACHE>>

synthVars ==
    <<request, engine, spc, sanitized, call, sanitized_text, processVars, trace,
      raised, result>>

cacheVars == <<_VOICE_CACHE, callers, derived, received>>

lockVars == <<_MODEL_LOCK, workers, constructed, obtained>>

threadVars == <<cacheVars, lockVars>>

piperVars == <<ui, job, child>>

toolVars == <<piperVars, wav>>

vars ==
    <<text, cleaned, recleaned, tpc, config_data, halfway, variations, outcome, vpc,
      limit, verdict, request, engine, spc, sanitized, call, sanitized_text,
      _TTS_INSTANCE, _LANGUAGES_CACHE, _SPEAKERS_CACHE, trace, raised, result,
      _VOICE_CACHE, callers, derived, received, _MODEL_LOCK, workers, constructed,
      obtained, ui, job, child, wav>>

(***************************************************************************)
(* Bounds                                                                  *)
(***************************************************************************)
\* longest raw text handed to sanitize_text
MaxLen == 3

\* most threads that run callbacks at the same time
MaxThreads == 2

\* most entries of a speaker_id_map
MaxMapLen == 2

\* largest num_speakers
MaxSpeakers == 3

\* numeric defaults run over -MaxGrid/1000 .. MaxGrid/1000 in steps of 0.001
MaxGrid == 1500

\* and over 0.4004 .. 0.4004 + MaxFine/1000000 in steps of 0.000001
MaxFine == 200

(***************************************************************************)
(* Characters                                                              *)
(***************************************************************************)
\* The characters raw texts are drawn from: one or two representatives of
\* every branch of the classification loop, the characters of the HTML
\* steps, and the pairs that compose under NFC.
Alphabet ==
    { "l", "t", "1", ".", ";", " ", "<", ">", "&",
      "U+2026",   \* horizontal ellipsis
      "U+00A0",   \* no-break space
      "U+200D",   \* zero width joiner (format character)
      "U+1F600",  \* emoji
      "U+0301",   \* combining acute accent
      "U+013A",   \* l with acute
      "U+1100",   \* Hangul choseong kiyeok
      "U+1161",   \* Hangul jungseong a
      "U+AC00" }  \* Hangul syllable ga

\* unicodedata.category, for the alphabet and for what html.unescape adds
GeneralCategory(c) ==
    CASE c \in {"l", "t", "U+013A"}                 -> "Ll"
      [] c \in {"U+1100", "U+1161", "U+AC00"}       -> "Lo"
      [] c = "1"                                    -> "Nd"
      [] c \in {".", ";", "&", "U+2026"}            -> "Po"
      [] c \in {" ", "U+00A0"}                      -> "Zs"
      [] c = "U+200D"                               -> "Cf"
      [] c = "U+1F600"                              -> "So"
      [] c = "U+0301"                               -> "Mn"
      [] c \in {"<", ">", "U+226A"}                 -> "Sm"

\* category.startswith(major)
CategoryStartsWith(category, major) ==
    CASE major = "C" -> category \in {"Cc", "Cf", "Cs", "Co", "Cn"}
      [] major = "L" -> category \in {"Lu", "Ll", "Lt", "Lm", "Lo"}
      [] major = "N" -> category \in {"Nd", "Nl", "No"}
      [] major = "P" -> category \in {"Pc", "Pd", "Ps", "Pe", "Pi", "Pf", "Po"}
      [] major = "Z" -> category \in {"Zs", "Zl", "Zp"}

ALLOWED_PUNCTUATION ==
    { ".", ",", ";", ":", "!", "?", "'", "\"", "(", ")", "[", "]", "-",
      "U+2013", "U+2014", "%" }

Range(s) == {s[i] : i \in 1..Len(s)}

(***************************************************************************)
(* html.unescape                                                           *)
(***************************************************************************)
\* html.entities.html5, restricted to the names the alphabet can spell
html5 ==
    (<<"l", "t">> :> <<"<">>) @@ (<<"l", "t", ";">> :> <<"<">>)
        @@ (<<"l", "l", ";">> :> <<"U+226A">>)

\* [^\t\n\f <&#;] of the character reference pattern
IsCharrefNameChar(c) == c \notin {"\t", "\n", "\f", " ", "<", "&", "#", ";"}

RECURSIVE CharrefNameLen(_, _, _)
\* length of the greedy match of [^\t\n\f <&#;]{1,32} at index i
CharrefNameLen(s, i, n) ==
    IF i > Len(s) \/ n = 32 \/ ~IsCharrefNameChar(s[i])
    THEN n
    ELSE CharrefNameLen(s, i + 1, n + 1)

RECURSIVE LongestNamePrefix(_, _)
\* the largest x in 2..x0 with s[:x] in html5, or 0
LongestNamePrefix(s, x) ==
    IF x < 2 THEN 0
    ELSE IF SubSeq(s, 1, x) \in DOMAIN html5 THEN x
    ELSE LongestNamePrefix(s, x - 1)

\* html._replace_charref for a named reference (the alphabet has no "#")
ReplaceCharref(s) ==
    IF s \in DOMAIN html5 THEN html5[s]
    ELSE LET x == LongestNamePrefix(s, Len(s) - 1)
         IN  IF x > 0
             THEN html5[SubSeq(s, 1, x)] \o SubSeq(s, x + 1, Len(s))
             ELSE <<"&">> \o s

\* what the substitution writes for the text at index i, and the index it
\* goes on from
UnescapeAt(s, i) ==
    IF s[i] # "&" THEN [out |-> <<s[i]>>, next |-> i + 1]
    ELSE LET n    == CharrefNameLen(s, i + 1, 0)
             semi == n > 0 /\ i + n + 1 <= Len(s) /\ s[i + n + 1] = ";"
             ref  == SubSeq(s, i + 1, i + n) \o (IF semi THEN <<";">> ELSE <<>>)
         IN  IF n = 0
             THEN [out |-> <<"&">>, next |-> i + 1]
             ELSE [out |-> ReplaceCharref(ref), next |-> i + 1 + Len(ref)]

RECURSIVE UnescapeRange(_, _, _)
\* the left-to-right scan over the matches that start in i..(hi - 1): what
\* it writes and the index after the last match
UnescapeRange(s, i, hi) ==
    IF i >= hi THEN [out |-> <<>>, next |-> i]
    ELSE IF hi - i = 1 THEN UnescapeAt(s, i)
    ELSE LET left  == UnescapeRange(s, i, (i + hi) \div 2)
             right == UnescapeRange(s, left.next, hi)
         IN  [out |-> left.out \o right.out, next |-> right.next]

UnescapeFrom(s, i) == UnescapeRange(s, i, Len(s) + 1).out

HtmlUnescape(s) == UnescapeFrom(s, 1)

(***************************************************************************)
(* _HTML_TAG_PATTERN.sub(" ", s): <[^>]+>                                  *)
(***************************************************************************)
\* index of the first c in s at or after i, or 0
IndexFrom(s, c, i) ==
    IF \A j \in i..Len(s) : s[j] # c THEN 0
    ELSE CHOOSE j \in i..Len(s) :
             s[j] = c /\ \A k \in i..(j - 1) : s[k] # c

\* what the substitution writes for the text at index i, and the index it
\* goes on from
StripTagsAt(s, i) ==
    LET close == IndexFrom(s, ">", i + 1)
    IN  IF s[i] = "<" /\ close > i + 1
        THEN [out |-> <<" ">>, next |-> close + 1]
        ELSE [out |-> <<s[i]>>, next |-> i + 1]

RECURSIVE StripTagsRange(_, _, _)
\* the left-to-right scan over the matches that start in i..(hi - 1)
StripTagsRange(s, i, hi) ==
    IF i >= hi THEN [out |-> <<>>, next |-> i]
    ELSE IF hi - i = 1 THEN StripTagsAt(s, i)
    ELSE LET left  == StripTagsRange(s, i, (i + hi) \div 2)
             right == StripTagsRange(s, left.next, hi)
         IN  [out |-> left.out \o right.out, next |-> right.next]

StripTagsFrom(s, i) == StripTagsRange(s, i, Len(s) + 1).out

StripTags(s) == StripTagsFrom(s, 1)

(***************************************************************************)
(* unicodedata.normalize("NFC", s)                                         *)
(***************************************************************************)
\* canonical decomposition mappings
Decomposition ==
    ("U+013A" :> <<"l", "U+0301">>) @@ ("U+AC00" :> <<"U+1100", "U+1161">>)

\* primary composites
Composite ==
    (<<"l", "U+0301">> :> "U+013A") @@ (<<"U+1100", "U+1161">> :> "U+AC00")

\* canonical combining class
CombiningClass(c) == IF c = "U+0301" THEN 230 ELSE 0

RECURSIVE Decompose(_)
\* the canonical decomposition of every character, joined
Decompose(s) ==
    IF s = <<>> THEN <<>>
    ELSE IF Len(s) = 1
    THEN (IF s[1] \in DOMAIN Decomposition THEN Decomposition[s[1]] ELSE s)
    ELSE Decompose(SubSeq(s, 1, Len(s) \div 2))
             \o Decompose(SubSeq(s, Len(s) \div 2 + 1, Len(s)))

\* index of the last character of s[1..i] with combining class 0, or 0
LastStarter(s, i) ==
    IF \A k \in 1..i : CombiningClass(s[k]) # 0 THEN 0
    ELSE i - (CHOOSE d \in 0..(i - 1) :
                  /\ CombiningClass(s[i - d]) = 0
                  /\ \A e \in 0..(d - 1) : CombiningClass(s[i - e]) # 0)

\* Canonical composition step: c combines with the last starter of out
\* unless a character between them blocks it.
ComposeStep(out, c) ==
    LET k       == LastStarter(out, Len(out))
        blocked == \E j \in (k + 1)..Len(out) :
                       CombiningClass(out[j]) >= CombiningClass(c)
    IN  IF k > 0 /\ ~blocked /\ <<out[k], c>> \in DOMAIN Composite
        THEN [out EXCEPT ![k] = Composite[<<out[k], c>>]]
        ELSE Append(out, c)

RECURSIVE ComposeRange(_, _, _, _)
\* out after the composition steps of s[i], .., s[hi], in this order
\* (left is never empty here: the test only makes the left half be
\* computed before the right half starts)
ComposeRange(s, i, hi, out) ==
    IF i > hi THEN out
    ELSE IF i = hi THEN ComposeStep(out, s[i])
    ELSE LET left == ComposeRange(s, i, (i + hi) \div 2, out)
         IN  IF left = <<>> THEN left
             ELSE ComposeRange(s, (i + hi) \div 2 + 1, hi, left)

ComposeFrom(s, i, out) == ComposeRange(s, i, Len(s), out)

\* The alphabet has one combining mark, so canonical reordering of the
\* decomposed text changes nothing.
NFC(s) == ComposeFrom(Decompose(s), 1, <<>>)

(***************************************************************************)
(* sanitize_text                                                           *)
(***************************************************************************)
\* SafeChars with the final branch keeping the character instead of ignoring it
SafeChars_KeepOther(char) ==
    LET category == GeneralCategory(char)
    IN  IF CategoryStartsWith(category, "C") THEN <<>>
        ELSE IF CategoryStartsWith(category, "P") /\ char \in {"U+2026"}
             THEN <<".", ".", ".">>
        ELSE IF CategoryStartsWith(category, "Z") THEN <<" ">>
        ELSE <<char>>

\* one iteration of the loop over normalized: what is appended to safe_chars
SafeChars(char) ==
    LET category == GeneralCategory(char)
    IN  IF CategoryStartsWith(category, "C") THEN <<>>
        ELSE IF CategoryStartsWith(category, "L")
                \/ CategoryStartsWith(category, "N") THEN <<char>>
        ELSE IF char \in ALLOWED_PUNCTUATION THEN <<char>>
        ELSE IF CategoryStartsWith(category, "P") /\ char \in {"U+2026"}
             THEN <<".", ".", ".">>
        ELSE IF CategoryStartsWith(category, "Z") THEN <<" ">>
        ELSE <<>>

RECURSIVE JoinSafeChars(_)
\* "".join(safe_chars) after the loop over the characters of s
JoinSafeChars(s) ==
    IF s = <<>> THEN <<>>
    ELSE IF Len(s) = 1 THEN SafeChars(s[1])
    ELSE JoinSafeChars(SubSeq(s, 1, Len(s) \div 2))
             \o JoinSafeChars(SubSeq(s, Len(s) \div 2 + 1, Len(s)))

\* length of the run of characters of set S in s starting at index i
RunLen(s, S, i) ==
    (CHOOSE j \in i..(Len(s) + 1) :
         /\ j > Len(s) \/ s[j] \notin S
         /\ \A k \in i..(j - 1) : s[k] \in S) - i

\* what the substitution writes for the text at index i, and the index it
\* goes on from
CollapseDotsAt(s, i) ==
    LET n == RunLen(s, {"."}, i)
    IN  IF n >= 4 THEN [out |-> <<".", ".", ".">>, next |-> i + n]
        ELSE [out |-> <<s[i]>>, next |-> i + 1]

RECURSIVE CollapseDotsRange(_, _, _)
\* the left-to-right scan over the matches that start in i..(hi - 1)
CollapseDotsRange(s, i, hi) ==
    IF i >= hi THEN [out |-> <<>>, next |-> i]
    ELSE IF hi - i = 1 THEN CollapseDotsAt(s, i)
    ELSE LET left  == CollapseDotsRange(s, i, (i + hi) \div 2)
             right == CollapseDotsRange(s, left.next, hi)
         IN  [out |-> left.out \o right.out, next |-> right.next]

\* CollapseDotsFrom matching nothing
CollapseDotsFrom_NoMatch(s, i) == SubSeq(s, i, Len(s))

\* _MULTI_DOTS_PATTERN.sub("...", s): \.{4,}
CollapseDotsFrom(s, i) == CollapseDotsRange(s, i, Len(s) + 1).out

RECURSIVE ReplaceEllipsis(_)
\* s.replace("U+2026", "...")
ReplaceEllipsis(s) ==
    IF s = <<>> THEN <<>>
    ELSE IF Len(s) = 1
    THEN (IF s[1] = "U+2026" THEN <<".", ".", ".">> ELSE s)
    ELSE ReplaceEllipsis(SubSeq(s, 1, Len(s) \div 2))
             \o ReplaceEllipsis(SubSeq(s, Len(s) \div 2 + 1, Len(s)))

\* \s of the re module and the characters str.strip() removes
Whitespace == {" ", "\t", "\n", "\r", "\f", "U+00A0"}

\* what the substitution writes for the text at index i, and the index it
\* goes on from
CollapseWhitespaceAt(s, i) ==
    LET n == RunLen(s, Whitespace, i)
    IN  IF n > 0 THEN [out |-> <<" ">>, next |-> i + n]
        ELSE [out |-> <<s[i]>>, next |-> i + 1]

RECURSIVE CollapseWhitespaceRange(_, _, _)
\* the left-to-right scan over the matches that start in i..(hi - 1)
CollapseWhitespaceRange(s, i, hi) ==
    IF i >= hi THEN [out |-> <<>>, next |-> i]
    ELSE IF hi - i = 1 THEN CollapseWhitespaceAt(s, i)
    ELSE LET left  == CollapseWhitespaceRange(s, i, (i + hi) \div 2)
             right == CollapseWhitespaceRange(s, left.next, hi)
         IN  [out |-> left.out \o right.out, next |-> right.next]

\* _WHITESPACE_PATTERN.sub(" ", s): \s+
CollapseWhitespaceFrom(s, i) == CollapseWhitespaceRange(s, i, Len(s) + 1).out

RECURSIVE Strip(_)
\* str.strip()
Strip(s) ==
    IF s = <<>> THEN <<>>
    ELSE IF Head(s) \in Whitespace THEN Strip(Tail(s))
    ELSE IF s[Len(s)] \in Whitespace THEN Strip(SubSeq(s, 1, Len(s) - 1))
    ELSE s

sanitize_text(t) ==
    IF t = <<>> THEN <<>>
    ELSE LET decoded_text == HtmlUnescape(t)
             without_tags == StripTags(decoded_text)
             normalized   == NFC(without_tags)
             joined       == JoinSafeChars(normalized)
             collapsed    == CollapseDotsFrom(joined, 1)
             replaced     == ReplaceEllipsis(collapsed)
         IN  Strip(CollapseWhitespaceFrom(replaced, 1))

(***************************************************************************)
(* Python values used by app/voice_data.py                                 *)
(***************************************************************************)
\* A JSON value as json.load returns it: t is the Python type ("absent"
\* stands for a key the mapping does not have), n the number (a float in
\* millionths, an int or bool as itself), s the characters of a string.
JAbsent   == [t |-> "absent", n |-> 0, s |-> <<>>]
JNull     == [t |-> "NoneType", n |-> 0, s |-> <<>>]
JList     == [t |-> "list", n |-> 0, s |-> <<>>]
JDict     == [t |-> "dict", n |-> 0, s |-> <<>>]
JBool(b)  == [t |-> "bool", n |-> IF b THEN 1 ELSE 0, s |-> <<>>]
JInt(i)   == [t |-> "int", n |-> i, s |-> <<>>]
JFloat(m) == [t |-> "float", n |-> m, s |-> <<>>]
JStr(str) == [t |-> "str", n |-> 0, s |-> str]

Abs(i) == IF i < 0 THEN 0 - i ELSE i

\* isinstance(v, int): bool is a subclass of int
IsInstanceInt(v) == v.t \in {"int", "bool"}

\* isinstance(v, (int, float))
IsInstanceIntOrFloat(v) == v.t \in {"int", "bool", "float"}

\* float(v) of an int, bool or float, in millionths
FloatOf(v) == IF v.t = "float" THEN v.n ELSE v.n * 1000000

DigitChars == <<"0", "1", "2", "3", "4", "5", "6", "7", "8", "9">>

DigitChar(d) == DigitChars[d + 1]

DigitValue(c) == CHOOSE d \in 0..9 : DigitChars[d + 1] = c

RECURSIVE IntDigits(_)
\* str(i) of a non-negative int
IntDigits(i) ==
    IF i < 10 THEN <<DigitChar(i)>>
    ELSE IntDigits(i \div 10) \o <<DigitChar(i % 10)>>

RECURSIVE DigitsValue(_)
\* the number a string of decimal digits denotes
DigitsValue(ds) ==
    IF ds = <<>> THEN 0
    ELSE 10 * DigitsValue(SubSeq(ds, 1, Len(ds) - 1)) + DigitValue(ds[Len(ds)])

IsDigits(ds) == ds # <<>> /\ \A i \in 1..Len(ds) : ds[i] \in Range(DigitChars)

\* int(v): the value, or the exception raised
IntOf(v) ==
    CASE v.t \in {"int", "bool"} -> [exc |-> "", v |-> v.n]
      [] v.t = "float" ->
            [exc |-> "",
             v |-> IF v.n < 0 THEN 0 - (Abs(v.n) \div 1000000)
                   ELSE v.n \div 1000000]
      [] v.t = "str" ->
            LET signed == v.s # <<>> /\ v.s[1] \in {"+", "-"}
                ds     == IF signed THEN Tail(v.s) ELSE v.s
            IN  IF IsDigits(ds)
                THEN [exc |-> "",
                      v |-> IF signed /\ v.s[1] = "-"
                            THEN 0 - DigitsValue(ds) ELSE DigitsValue(ds)]
                ELSE [exc |-> "ValueError", v |-> 0]
      [] OTHER -> [exc |-> "TypeError", v |-> 0]

\* A dict is the sequence of its items in insertion order.
DictKeys(d) == [i \in 1..Len(d) |-> d[i].key]

DictHas(d, k) == \E i \in 1..Len(d) : d[i].key = k

DictGet(d, k) == d[CHOOSE i \in 1..Len(d) : d[i].key = k].value

\* d[k] = v: a present key keeps its position
DictSet(d, k, v) ==
    IF DictHas(d, k)
    THEN [i \in 1..Len(d) |-> IF d[i].key = k THEN [key |-> k, value |-> v]
                                               ELSE d[i]]
    ELSE Append(d, [key |-> k, value |-> v])

(***************************************************************************)
(* Float arithmetic.  A float is the double nearest to a decimal; the      *)
(* model carries the decimal.  round() and the "f" format round the exact  *)
(* binary value, so where the decimal lies exactly half way between two    *)
(* results the binary error of the double decides.  fp names the half-way  *)
(* values whose double lies on the far side of zero: fp.round the products *)
(* (in units of 1e-8) that round(x, 5) rounds away from zero, fp.format    *)
(* the values (in millionths) that "%.3f" rounds away from zero.  Init     *)
(* admits every such fp; the doubles of a CPython run realise one of them. *)
(***************************************************************************)
\* round(x, 5) of a product given in units of 1e-8, in millionths
Round5(p, fp) ==
    LET q == Abs(p) \div 1000
        r == Abs(p) % 1000
        m == IF r > 500 \/ (r = 500 /\ p \in fp.round) THEN q + 1 ELSE q
    IN  IF p < 0 THEN 0 - 10 * m ELSE 10 * m

\* f"{value:.3f}"
FormatFixed3(value, fp) ==
    LET q == Abs(value) \div 1000
        r == Abs(value) % 1000
        m == IF r > 500 \/ (r = 500 /\ value \in fp.format) THEN q + 1 ELSE q
    IN  (IF value < 0 THEN <<"-">> ELSE <<>>)
            \o IntDigits(m \div 1000) \o <<".">>
            \o <<DigitChar((m \div 100) % 10), DigitChar((m \div 10) % 10),
                 DigitChar(m % 10)>>

RECURSIVE RStrip(_, _)
\* s.rstrip(c)
RStrip(s, c) ==
    IF s # <<>> /\ s[Len(s)] = c THEN RStrip(SubSeq(s, 1, Len(s) - 1), c)
    ELSE s

\* float(label) of a label that _format_float wrote, in millionths
ParseFloat(label) ==
    LET negative == label # <<>> /\ label[1] = "-"
        body     == IF negative THEN Tail(label) ELSE label
        dot      == IndexFrom(body, ".", 1)
        whole    == IF dot = 0 THEN body ELSE SubSeq(body, 1, dot - 1)
        frac     == IF dot = 0 THEN <<>> ELSE SubSeq(body, dot + 1, Len(body))
        padded   == frac \o SubSeq(<<"0", "0", "0", "0", "0", "0">>, 1,
                                   6 - Len(frac))
        mag      == DigitsValue(whole) * 1000000 + DigitsValue(padded)
    IN  IF negative THEN 0 - mag ELSE mag

(***************************************************************************)
(* app/voice_data.py                                                       *)
(***************************************************************************)
ParameterNames == <<"length_scale", "noise_scale", "noise_w">>

_format_float(value, fp) ==
    LET formatted == FormatFixed3(value, fp)
        stripped  == IF "." \in Range(formatted)
                     THEN RStrip(RStrip(formatted, "0"), ".")
                     ELSE formatted
    IN  IF stripped = <<>> THEN <<"0">> ELSE stripped

\* factors of a ladder with two more rungs
factors_Wider == <<50, 75, 90, 100, 110, 125, 150>>

\* factors of _generate_numeric_variations, in hundredths
factors == <<75, 90, 100, 110, 125>>

\* max(0.0, x)
Max0(x) == IF x > 0 THEN x ELSE 0

\* _generate_numeric_variations without max(0.0, ...)
_generate_numeric_variations_NoClamp(default, fp) ==
    [i \in 1..Len(factors) |-> Round5(default * factors[i], fp)]

_generate_numeric_variations(default, fp) ==
    [i \in 1..Len(factors) |-> Max0(Round5(default * factors[i], fp))]

\* sorted(S, reverse=True)
SortedSet_Descending(S) ==
    [i \in 1..Cardinality(S) |->
        CHOOSE x \in S : Cardinality({y \in S : y > x}) = i - 1]

RECURSIVE SortedSet(_)
\* sorted(S) of a set of numbers
SortedSet(S) ==
    IF S = {} THEN <<>>
    ELSE LET least == CHOOSE x \in S : \A y \in S : x <= y
         IN  <<least>> \o SortedSet(S \ {least})

RECURSIVE LabelMap(_, _)
\* {label: float(label) for label in labels[i:]}, added to d
LabelMap(labels, d) ==
    IF labels = <<>> THEN d
    ELSE LabelMap(Tail(labels), DictSet(d, Head(labels), ParseFloat(Head(labels))))

RECURSIVE OrderedMap(_, _, _)
\* {label: value_map[label] for label in labels}, added to d
OrderedMap(labels, value_map, d) ==
    IF labels = <<>> THEN d
    ELSE OrderedMap(Tail(labels), value_map,
                    DictSet(d, Head(labels), DictGet(value_map, Head(labels))))

\* WithDefault that never adds the default
WithDefault_Never(value_map, labels, default_label, default_value) ==
    [value_map |-> value_map, labels |-> labels]

\* lines 98-100: the default is added when its label is not a key
WithDefault(value_map, labels, default_label, default_value) ==
    IF ~DictHas(value_map, default_label)
    THEN [value_map |-> DictSet(value_map, default_label, default_value),
          labels    |-> Append(labels, default_label)]
    ELSE [value_map |-> value_map, labels |-> labels]

\* _extract_numeric_choices: <<>> for None, else <<NumericChoices>>.
\* config.inference.t is the Python type of config.get("inference") and
\* config.inference.params[k] is inference.get(k).
_extract_numeric_choices(config, parameter_name, fp) ==
    LET inference == config.inference
    IN  IF inference.t # "dict" THEN <<>>
        ELSE LET default_value == inference.params[parameter_name]
             IN  IF ~IsInstanceIntOrFloat(default_value) THEN <<>>
                 ELSE
    LET values  == _generate_numeric_variations(FloatOf(default_value), fp)
        rounded == {Round5(values[i] * 100, fp) : i \in 1..Len(values)}
        sorted  == SortedSet(rounded)
        labels  == [i \in 1..Len(sorted) |-> _format_float(sorted[i], fp)]
        value_map     == LabelMap(labels, <<>>)
        default_label == _format_float(FloatOf(default_value), fp)
        added   == WithDefault(value_map, labels, default_label,
                               FloatOf(default_value))
        ordered_value_map == OrderedMap(added.labels, added.value_map, <<>>)
    IN  << [values |-> ordered_value_map, default_label |-> default_label] >>

RECURSIVE InsertByIndex(_, _)
\* item put after the items of the sorted list whose index is not larger
InsertByIndex(sorted, item) ==
    IF sorted = <<>> THEN <<item>>
    ELSE IF item.value < Head(sorted).value THEN <<item>> \o sorted
    ELSE <<Head(sorted)>> \o InsertByIndex(Tail(sorted), item)

\* the items in declaration order, not sorted
SortedByIndex_Declared(items, sorted) == sorted \o items

RECURSIVE SortedByIndex(_, _)
\* sorted(items, key=lambda item: item[1]), a stable sort
SortedByIndex(items, sorted) ==
    IF items = <<>> THEN sorted
    ELSE SortedByIndex(Tail(items), InsertByIndex(sorted, Head(items)))

RECURSIVE DictOf(_, _)
\* {label: value for label, value in items}, added to d
DictOf(items, d) ==
    IF items = <<>> THEN d
    ELSE DictOf(Tail(items), DictSet(d, Head(items).key, Head(items).value))

\* f"Speaker {idx}"
SpeakerLabel(idx) == <<"S", "p", "e", "a", "k", "e", "r", " ">> \o IntDigits(idx)

\* labels and indices counted from i + 1
SpeakerRange_OneBased(i, num_speakers) ==
    [k \in 1..(num_speakers - i) |-> [key |-> SpeakerLabel(i + k), value |-> i + k]]

RECURSIVE SpeakerRange(_, _)
\* {f"Speaker {idx}": idx for idx in range(i, num_speakers)}
SpeakerRange(i, num_speakers) ==
    IF i >= num_speakers THEN <<>>
    ELSE <<[key |-> SpeakerLabel(i), value |-> i]>>
             \o SpeakerRange(i + 1, num_speakers)

\* _extract_speaker_choices taking num_speakers >= 1 for a speaker count
_extract_speaker_choices_FromOne(config) ==
    LET map == config.speaker_id_map
    IN  IF map.t = "dict" /\ map.items # <<>>
        THEN LET ints   == [i \in 1..Len(map.items) |-> IntOf(map.items[i].value)]
                 failed == {i \in 1..Len(ints) : ints[i].exc # ""}
                 first  == CHOOSE i \in failed : \A j \in failed : i <= j
                 items  == SortedByIndex(
                               [i \in 1..Len(ints) |->
                                   [key |-> map.items[i].key, value |-> ints[i].v]],
                               <<>>)
                 speaker_choices == DictOf(items, <<>>)
             IN  IF failed # {}
                 THEN [exc |-> ints[first].exc, speaker_choices |-> <<>>,
                       default |-> <<>>]
                 ELSE [exc |-> "", speaker_choices |-> speaker_choices,
                       default |-> <<speaker_choices[1].key>>]
        ELSE LET num_speakers == config.num_speakers
             IN  IF IsInstanceInt(num_speakers) /\ num_speakers.n >= 1
                 THEN [exc |-> "",
                       speaker_choices |-> SpeakerRange(0, num_speakers.n),
                       default |-> <<SpeakerLabel(0)>>]
                 ELSE [exc |-> "", speaker_choices |-> <<>>, default |-> <<>>]

\* _extract_speaker_choices: the exception raised, or the pair returned
\* (default is <<>> for None, else <<label>>)
_extract_speaker_choices(config) ==
    LET map == config.speaker_id_map
    IN  IF map.t = "dict" /\ map.items # <<>>
        THEN LET ints   == [i \in 1..Len(map.items) |-> IntOf(map.items[i].value)]
                 failed == {i \in 1..Len(ints) : ints[i].exc # ""}
                 first  == CHOOSE i \in failed : \A j \in failed : i <= j
                 items  == SortedByIndex(
                               [i \in 1..Len(ints) |->
                                   [key |-> map.items[i].key, value |-> ints[i].v]],
                               <<>>)
                 speaker_choices == DictOf(items, <<>>)
             IN  IF failed # {}
                 THEN [exc |-> ints[first].exc, speaker_choices |-> <<>>,
                       default |-> <<>>]
                 ELSE [exc |-> "", speaker_choices |-> speaker_choices,
                       default |-> <<speaker_choices[1].key>>]
        ELSE LET num_speakers == config.num_speakers
             IN  IF IsInstanceInt(num_speakers) /\ num_speakers.n > 1
                 THEN [exc |-> "",
                       speaker_choices |-> SpeakerRange(0, num_speakers.n),
                       default |-> <<SpeakerLabel(0)>>]
                 ELSE [exc |-> "", speaker_choices |-> <<>>, default |-> <<>>]

RECURSIVE NumericParameters(_, _, _, _)
\* the loop of parse_voice_config over the parameter names from index i
NumericParameters(config, fp, i, numeric_parameters) ==
    IF i > Len(ParameterNames) THEN numeric_parameters
    ELSE LET numeric_choice ==
                 _extract_numeric_choices(config, ParameterNames[i], fp)
         IN  NumericParameters(config, fp, i + 1,
                 IF numeric_choice # <<>>
                 THEN DictSet(numeric_parameters, ParameterNames[i],
                              numeric_choice[1])
                 ELSE numeric_parameters)

\* parse_voice_config: the exception raised, or <<VoiceMetadata>>
parse_voice_config(voice_name, config, fp) ==
    LET speakers == _extract_speaker_choices(config)
    IN  IF speakers.exc # ""
        THEN [exc |-> speakers.exc, metadata |-> <<>>]
        ELSE [exc |-> "",
              metadata |-> << [name |-> voice_name,
                               speaker_choices |-> speakers.speaker_choices,
                               default_speaker |-> speakers.default,
                               numeric_parameters |->
                                   NumericParameters(config, fp, 1, <<>>)] >>]

(***************************************************************************)
(* Specification of the voice configuration deriver: a configuration       *)
(* record, as json.load returned it, is handed to parse_voice_config.      *)
(***************************************************************************)
InferenceKeys == Range(ParameterNames) \cup {"extra"}

NoInference(t) == [t |-> t, params |-> [k \in InferenceKeys |-> JAbsent]]

NoSpeakerMap(t) == [t |-> t, items |-> <<>>]

EmptyConfig ==
    [speaker_id_map |-> NoSpeakerMap("absent"), num_speakers |-> JAbsent,
     inference |-> NoInference("absent")]

NoVariations == [k \in Range(ParameterNames) |-> <<>>]

NoOutcome == [exc |-> "", metadata |-> <<>>]

NoTies == [round |-> {}, format |-> {}]

SpeakerNames ==
    { <<"a", "l", "i", "c", "e">>, <<"b", "o", "b">>, <<"c", "a", "r", "o", "l">> }

\* values of a speaker_id_map entry
SpeakerIds ==
    { JInt(0), JInt(1), JNull, JStr(<<"x">>), JStr(<<"3">>), JFloat(1700000),
      JBool(TRUE) }

\* speaker_id_map: absent, not a mapping, or a mapping of up to MaxMapLen
\* distinct names
SpeakerMaps ==
    {NoSpeakerMap("absent"), NoSpeakerMap("NoneType"), NoSpeakerMap("list")}
        \cup { [t |-> "dict", items |-> items] :
                 items \in UNION { { m \in [1..n -> [key : SpeakerNames,
                                                     value : SpeakerIds]] :
                                       \A i, j \in 1..n :
                                           m[i].key = m[j].key => i = j } :
                                   n \in 0..MaxMapLen } }

SpeakerCounts ==
    {JAbsent, JNull, JBool(TRUE), JFloat(3000000), JStr(<<"3">>)}
        \cup {JInt(i) : i \in -1..MaxSpeakers}

\* values of a parameter of the inference mapping
ParameterValues ==
    { JAbsent, JNull, JStr(<<"1">>), JList, JDict, JBool(TRUE), JInt(1),
      JFloat(1200000) }

\* numeric defaults in millionths
Defaults ==
    {1000 * g : g \in (0 - MaxGrid)..MaxGrid}
        \cup {400400 + k : k \in 0..MaxFine}
        \cup {8000000}

OneDefault(p, d) ==
    [t |-> "dict",
     params |-> [k \in InferenceKeys |-> IF k = p THEN JFloat(d) ELSE JAbsent]]

\* the speaker fields in every combination
SpeakerConfigs(cfg) ==
    \E m \in SpeakerMaps, c \in SpeakerCounts,
       i \in {NoInference("absent"), OneDefault("length_scale", 1000000)} :
        cfg = [speaker_id_map |-> m, num_speakers |-> c, inference |-> i]

\* the inference mapping in every combination
InferenceConfigs(cfg) ==
    \E m \in { NoSpeakerMap("absent"),
                [t |-> "dict",
                 items |-> << [key |-> <<"a", "l", "i", "c", "e">>, value |-> JInt(0)],
                              [key |-> <<"b", "o", "b">>, value |-> JInt(1)] >>] },
       c \in {JAbsent, JInt(3)},
       i \in {NoInference("NoneType"), NoInference("list"), NoInference("str")}
             \cup { [t |-> "dict", params |-> ps] :
                      ps \in { f \in [InferenceKeys -> ParameterValues] :
                                 f["extra"] \in {JAbsent, JFloat(1200000)} } } :
        cfg = [speaker_id_map |-> m, num_speakers |-> c, inference |-> i]

\* one numeric default from the whole range
DefaultConfigs(cfg) ==
    \E p \in Range(ParameterNames), d \in Defaults :
        cfg = [speaker_id_map |-> NoSpeakerMap("absent"),
               num_speakers |-> JAbsent, inference |-> OneDefault(p, d)]

\* the float defaults of the numeric parameters of a configuration
NumericDefaults(cfg) ==
    IF cfg.inference.t # "dict" THEN {}
    ELSE { FloatOf(cfg.inference.params[p]) :
             p \in {k \in Range(ParameterNames) :
                      IsInstanceIntOrFloat(cfg.inference.params[k])} }

IsHalfWay(x) == Abs(x) % 1000 = 500

\* the products of cfg that lie half way between two results of round(x, 5)
RoundTies(cfg) ==
    { p \in { d * factors[i] : d \in NumericDefaults(cfg), i \in 1..Len(factors) } :
        IsHalfWay(p) }

\* the values of cfg that lie half way between two results of "%.3f"
FormatTies(cfg, round) ==
    { v \in NumericDefaults(cfg) \cup
            UNION { Range(_generate_numeric_variations(
                              d, [round |-> round, format |-> {}])) :
                    d \in NumericDefaults(cfg) } :
        IsHalfWay(v) }

\* the values of the variables of the other operations while one is studied
SanitizerOff == cleaned = <<>> /\ recleaned = <<>> /\ tpc = "off"

VoiceOff ==
    /\ config_data = EmptyConfig /\ halfway = NoTies /\ variations = NoVariations
    /\ outcome = NoOutcome /\ vpc = "off"

LimitOff == limit = <<>> /\ verdict = "off"

ProcessOff ==
    _TTS_INSTANCE = <<>> /\ _LANGUAGES_CACHE = <<>> /\ _SPEAKERS_CACHE = <<>>

RequestOff ==
    /\ request = <<>> /\ engine = <<>> /\ spc = "off"
    /\ sanitized = <<>> /\ call = <<>> /\ sanitized_text = <<>>
    /\ trace = <<>> /\ raised = <<>> /\ result = <<>>

SynthOff == RequestOff /\ ProcessOff

CacheOff ==
    _VOICE_CACHE = <<>> /\ callers = <<>> /\ derived = <<>> /\ received = <<>>

LockOff ==
    _MODEL_LOCK = <<>> /\ workers = <<>> /\ constructed = 0 /\ obtained = <<>>

ThreadsOff == CacheOff /\ LockOff

PiperOff == ui = <<>> /\ job = <<>> /\ child = <<>>

ToolsOff == PiperOff /\ wav = <<>>

InitVoice ==
    /\ \/ SpeakerConfigs(config_data)
       \/ InferenceConfigs(config_data)
       \/ DefaultConfigs(config_data)
    /\ \E round \in SUBSET RoundTies(config_data) :
          \E format \in SUBSET FormatTies(config_data, round) :
              halfway = [round |-> round, format |-> format]
    /\ variations = NoVariations
    /\ outcome = NoOutcome
    /\ vpc = "config"
    /\ text = <<>> /\ SanitizerOff /\ LimitOff /\ SynthOff /\ ThreadsOff /\ ToolsOff

ParseVoiceConfig ==
    /\ vpc = "config"
    /\ outcome' = parse_voice_config("voice", config_data, halfway)
    /\ variations' =
           [p \in Range(ParameterNames) |->
               IF _extract_numeric_choices(config_data, p, halfway) = <<>> THEN <<>>
               ELSE _generate_numeric_variations(
                        FloatOf(config_data.inference.params[p]), halfway)]
    /\ vpc' = "parsed"
    /\ UNCHANGED <<config_data, halfway>>
    /\ UNCHANGED <<textVars, limitVars, synthVars, threadVars, toolVars>>

NextVoice == ParseVoiceConfig

SpecVoice == InitVoice /\ [][NextVoice]_vars

(***************************************************************************)
(* Specification of the sanitizer: generate_audio sanitizes the raw text    *)
(* and synthesize_to_wav sanitizes what it is handed once more.            *)
(***************************************************************************)
Texts == UNION {[1..n -> Alphabet] : n \in 0..MaxLen}

InitText ==
    /\ text \in Texts
    /\ cleaned = <<>>
    /\ recleaned = <<>>
    /\ tpc = "raw"
    /\ VoiceOff /\ LimitOff /\ SynthOff /\ ThreadsOff /\ ToolsOff

SanitizeText ==
    /\ tpc = "raw"
    /\ cleaned' = sanitize_text(text)
    /\ tpc' = "clean"
    /\ UNCHANGED <<text, recleaned>>
    /\ UNCHANGED <<voiceVars, limitVars, synthVars, threadVars, toolVars>>

SanitizeAgain ==
    /\ tpc = "clean"
    /\ recleaned' = sanitize_text(cleaned)
    /\ tpc' = "reclean"
    /\ UNCHANGED <<text, cleaned>>
    /\ UNCHANGED <<voiceVars, limitVars, synthVars, threadVars, toolVars>>

NextText == SanitizeText \/ SanitizeAgain

SpecText == InitText /\ [][NextText]_vars

(***************************************************************************)
(* Specification of the length guard: ensure_text_within_limit is called   *)
(* with a text and with or without a limit.                                *)
(***************************************************************************)
\* config.MAX_TEXT_LENGTH
MAX_TEXT_LENGTH == 8000

\* ensure_text_within_limit: "ValueError" when it raises, "None" when it
\* returns; lim is <<>> for None, else <<limit>>
ensure_text_within_limit(t, lim) ==
    LET max_length == IF lim = <<>> \/ lim[1] = 0 THEN MAX_TEXT_LENGTH ELSE lim[1]
    IN  IF Len(t) > max_length THEN "ValueError" ELSE "None"

\* the text of n characters c
Repeat(c, n) == [i \in 1..n |-> c]

\* texts of up to MaxLen - 1 characters and texts around MAX_TEXT_LENGTH
GuardedTexts ==
    UNION {[1..n -> Alphabet] : n \in 0..(MaxLen - 1)}
        \cup {Repeat("l", MAX_TEXT_LENGTH + d) : d \in (0 - 1)..1}

\* no limit, the limits around the short texts and around MAX_TEXT_LENGTH
Limits ==
    {<<>>} \cup {<<n>> : n \in (0 - 1)..MaxLen}
        \cup {<<MAX_TEXT_LENGTH + d>> : d \in (0 - 1)..1}

InitLimit ==
    /\ text \in GuardedTexts
    /\ limit \in Limits
    /\ verdict = "call"
    /\ SanitizerOff /\ VoiceOff /\ SynthOff /\ ThreadsOff /\ ToolsOff

EnsureTextWithinLimit ==
    /\ verdict = "call"
    /\ verdict' = ensure_text_within_limit(text, limit)
    /\ UNCHANGED <<text, limit>>
    /\ UNCHANGED <<cleaned, recleaned, tpc, voiceVars, synthVars, threadVars, toolVars>>

NextLimit == EnsureTextWithinLimit

SpecLimit == InitLimit /\ [][NextLimit]_vars

(***************************************************************************)
(* coqui_xtts_app/app/main.py, ui.py and cli.py: one request               *)
(***************************************************************************)
\* config.SAFE_LANGUAGES_FALLBACK
SAFE_LANGUAGES_FALLBACK ==
    { "pt", "en", "es", "fr", "de", "it", "ru", "tr", "pl", "nl", "sv", "fi",
      "uk", "ja", "ko", "zh-cn", "ar" }

\* config.SAFE_SPEAKERS_FALLBACK
SAFE_SPEAKERS_FALLBACK == {"random"}

\* config.DEFAULT_SPEAKER
DEFAULT_SPEAKER == "random"

\* config.DEFAULT_SAMPLE_RATE
DEFAULT_SAMPLE_RATE == 24000

\* config.SUPPORTED_SAMPLE_RATES
SUPPORTED_SAMPLE_RATES == {24000}

\* str.lower() of a language name
Lower(name) ==
    CASE name = "PT" -> "pt"
      [] name = "EN" -> "en"
      [] name = "XX" -> "xx"
      [] OTHER -> name

\* bool(v) of a value of the request
Truthy(v) ==
    CASE v.t \in {"absent", "NoneType"} -> FALSE
      [] v.t \in {"int", "bool", "float"} -> v.n # 0
      [] v.t = "str" -> v.s # <<>>
      [] OTHER -> TRUE

\* _extract_languages: the names of the sorted list; an empty set stands
\* for a model without the attribute or with an empty one
_extract_languages(model) ==
    LET languages == IF model.languages # {} THEN model.languages
                     ELSE SAFE_LANGUAGES_FALLBACK
    IN  {Lower(lang) : lang \in languages}

\* _extract_speakers: the names of the sorted list
_extract_speakers(model) ==
    IF model.speakers # {} THEN model.speakers ELSE SAFE_SPEAKERS_FALLBACK

\* an entry of the trace; the constructor has no arguments of interest
Called(op, txt, language, speaker_wav, speaker) ==
    [op |-> op, text |-> txt, language |-> language, speaker_wav |-> speaker_wav,
     speaker |-> speaker]

\* get_tts in a process with one thread: the instance and trace after the
\* call and the exception raised; loads tells whether the constructor works
get_tts(loads) ==
    IF _TTS_INSTANCE # <<>>
    THEN [instance |-> _TTS_INSTANCE, trace |-> trace, exc |-> ""]
    ELSE [instance |-> IF loads THEN <<1>> ELSE <<>>,
          trace    |-> Append(trace, Called("TTS", <<>>, "", <<>>, <<>>)),
          exc      |-> IF loads THEN "" ELSE "RuntimeError"]

\* an exception leaves synthesize_to_wav: main_cli returns 2 and
\* generate_audio the error message
Raise(exc, why) ==
    /\ raised' = <<[exc |-> exc, why |-> why]>>
    /\ result' = <<IF request.entry = "cli" THEN "exit 2" ELSE "Erro">>
    /\ spc' = "done"

\* main_cli, lines 57-75: the text file is read and synthesize_to_wav called
MainCli ==
    /\ spc = "main_cli"
    /\ IF request.source = "unreadable"
       THEN /\ result' = <<"exit 1">>
            /\ spc' = "done"
            /\ UNCHANGED call
       ELSE /\ call' = << [text |-> text, lang |-> request.lang,
                           sample_rate |-> request.sample_rate,
                           speaker_wav |-> request.speaker_wav,
                           speaker |-> request.speaker] >>
            /\ spc' = "sanitize"
            /\ UNCHANGED result
    /\ UNCHANGED <<text, request, engine, sanitized, sanitized_text, processVars,
                   trace, raised>>
    /\ UNCHANGED <<cleaned, recleaned, tpc, voiceVars, limitVars, threadVars, toolVars>>

\* generate_audio, lines 59-62: _extract_text and the first sanitization
ExtractAndSanitize ==
    /\ spc = "generate_audio"
    /\ IF request.source = "unreadable" \/ (request.source = "direct" /\ text = <<>>)
       THEN /\ result' = <<"Erro">>
            /\ spc' = "done"
            /\ UNCHANGED sanitized
       ELSE /\ sanitized' = sanitize_text(text)
            /\ IF sanitized' = <<>>
               THEN result' = <<"Erro">> /\ spc' = "done"
               ELSE spc' = "ui_call" /\ UNCHANGED result
    /\ UNCHANGED <<text, request, engine, call, sanitized_text, processVars, trace,
                   raised>>
    /\ UNCHANGED <<cleaned, recleaned, tpc, voiceVars, limitVars, threadVars, toolVars>>

\* generate_audio, lines 64-84: the arguments are prepared and
\* synthesize_to_wav is called with the sanitized text
CallSynthesize ==
    /\ spc = "ui_call"
    /\ LET sr_value == IF Truthy(request.sample_rate)
                       THEN IntOf(request.sample_rate)
                       ELSE [exc |-> "", v |-> DEFAULT_SAMPLE_RATE]
       IN  IF sr_value.exc # ""
           THEN /\ result' = <<"Erro">>
                /\ spc' = "done"
                /\ UNCHANGED call
           ELSE /\ call' = << [text |-> sanitized, lang |-> request.lang,
                               sample_rate |-> JInt(sr_value.v),
                               speaker_wav |-> request.speaker_wav,
                               speaker |-> request.speaker] >>
                /\ spc' = "sanitize"
                /\ UNCHANGED result
    /\ UNCHANGED <<text, request, engine, sanitized, sanitized_text, processVars,
                   trace, raised>>
    /\ UNCHANGED <<cleaned, recleaned, tpc, voiceVars, limitVars, threadVars, toolVars>>

\* what the steps of synthesize_to_wav leave alone besides their own effect
SynthFrame ==
    /\ UNCHANGED <<text, request, engine, sanitized, call>>
    /\ UNCHANGED <<cleaned, recleaned, tpc, voiceVars, limitVars, threadVars, toolVars>>

\* synthesize_to_wav without the check of lines 113-114
Sanitize_NoEmptyCheck ==
    /\ spc = "sanitize"
    /\ sanitized_text' = sanitize_text(call[1].text)
    /\ spc' = "limit"
    /\ UNCHANGED <<raised, result>>
    /\ UNCHANGED <<processVars, trace>>
    /\ SynthFrame

\* synthesize_to_wav, lines 112-114
Sanitize ==
    /\ spc = "sanitize"
    /\ sanitized_text' = sanitize_text(call[1].text)
    /\ IF sanitized_text' = <<>>
       THEN Raise("ValueError", "empty")
       ELSE spc' = "limit" /\ UNCHANGED <<raised, result>>
    /\ UNCHANGED <<processVars, trace>>
    /\ SynthFrame

\* synthesize_to_wav with the guard on the text as given
EnsureLimit_OnRawText ==
    /\ spc = "limit"
    /\ IF ensure_text_within_limit(call[1].text, <<>>) = "ValueError"
       THEN Raise("ValueError", "too long")
       ELSE spc' = "languages" /\ UNCHANGED <<raised, result>>
    /\ UNCHANGED <<sanitized_text, processVars, trace>>
    /\ SynthFrame

\* synthesize_to_wav, line 116
EnsureLimit ==
    /\ spc = "limit"
    /\ IF ensure_text_within_limit(sanitized_text, <<>>) = "ValueError"
       THEN Raise("ValueError", "too long")
       ELSE spc' = "languages" /\ UNCHANGED <<raised, result>>
    /\ UNCHANGED <<sanitized_text, processVars, trace>>
    /\ SynthFrame

\* synthesize_to_wav, line 118: get_available_languages
GetAvailableLanguages ==
    /\ spc = "languages"
    /\ IF _LANGUAGES_CACHE # <<>>
       THEN /\ spc' = "lang"
            /\ UNCHANGED <<processVars, trace, raised, result>>
       ELSE \E loads \in BOOLEAN :
                LET model == get_tts(loads)
                IN  /\ _TTS_INSTANCE' = model.instance
                    /\ trace' = model.trace
                    /\ UNCHANGED _SPEAKERS_CACHE
                    /\ IF model.exc # ""
                       THEN /\ Raise(model.exc, "load")
                            /\ UNCHANGED _LANGUAGES_CACHE
                       ELSE /\ _LANGUAGES_CACHE' = <<_extract_languages(engine)>>
                            /\ spc' = "lang"
                            /\ UNCHANGED <<raised, result>>
    /\ UNCHANGED sanitized_text
    /\ SynthFrame

\* synthesize_to_wav without the check of lines 126-130
CheckArguments_AnySampleRate ==
    /\ spc = "lang"
    /\ IF Lower(call[1].lang) \notin _LANGUAGES_CACHE[1]
       THEN Raise("ValueError", "language")
       ELSE spc' = "get_tts" /\ UNCHANGED <<raised, result>>
    /\ UNCHANGED <<sanitized_text, processVars, trace>>
    /\ SynthFrame

\* synthesize_to_wav, lines 119-130: the language and the sample rate
CheckArguments ==
    /\ spc = "lang"
    /\ LET sample_rate == call[1].sample_rate
       IN  IF Lower(call[1].lang) \notin _LANGUAGES_CACHE[1]
           THEN Raise("ValueError", "language")
           ELSE IF sample_rate.t # "NoneType"
                   /\ sample_rate.n \notin SUPPORTED_SAMPLE_RATES
           THEN Raise("ValueError", "sample rate")
           ELSE spc' = "get_tts" /\ UNCHANGED <<raised, result>>
    /\ UNCHANGED <<sanitized_text, processVars, trace>>
    /\ SynthFrame

\* synthesize_to_wav, lines 132-142: the output directory, get_tts and the
\* reference audio
GetModel ==
    /\ spc = "get_tts"
    /\ \E loads \in BOOLEAN :
           LET model == get_tts(loads)
           IN  /\ _TTS_INSTANCE' = model.instance
               /\ trace' = model.trace
               /\ IF model.exc # ""
                  THEN Raise(model.exc, "load")
                  ELSE IF call[1].speaker_wav = "missing"
                  THEN Raise("ValueError", "speaker_wav")
                  ELSE spc' = "speaker" /\ UNCHANGED <<raised, result>>
    /\ UNCHANGED <<sanitized_text, _LANGUAGES_CACHE, _SPEAKERS_CACHE>>
    /\ SynthFrame

\* synthesize_to_wav, lines 144-153: get_available_speakers when no
\* reference audio is given
SelectSpeaker ==
    /\ spc = "speaker"
    /\ IF call[1].speaker_wav = "None" /\ _SPEAKERS_CACHE = <<>>
       THEN _SPEAKERS_CACHE' = <<_extract_speakers(engine)>>
       ELSE UNCHANGED _SPEAKERS_CACHE
    /\ spc' = "tts_to_file"
    /\ UNCHANGED <<sanitized_text, _TTS_INSTANCE, _LANGUAGES_CACHE, trace, raised,
                   result>>
    /\ SynthFrame

\* the speaker_wav and speaker arguments of tts_to_file: <<>> for None
SpeakerWavPath == IF call[1].speaker_wav = "None" THEN <<>> ELSE <<"path">>

SelectedSpeaker ==
    IF SpeakerWavPath # <<>> THEN <<>>
    ELSE IF call[1].speaker # <<>> /\ call[1].speaker[1] \in _SPEAKERS_CACHE[1]
    THEN call[1].speaker
    ELSE <<DEFAULT_SPEAKER>>

\* synthesize_to_wav, lines 155-174: the engine writes the file or fails
TtsToFile ==
    /\ spc = "tts_to_file"
    /\ trace' = Append(trace, Called("tts_to_file", sanitized_text,
                                     Lower(call[1].lang), SpeakerWavPath,
                                     SelectedSpeaker))
    /\ \E outcome_of_engine \in {"raises", "no file", "file"} :
           IF outcome_of_engine = "raises" THEN Raise("RuntimeError", "synthesis")
           ELSE IF outcome_of_engine = "no file"
           THEN Raise("RuntimeError", "no output")
           ELSE /\ result' = <<IF request.entry = "cli" THEN "exit 0" ELSE "audio">>
                /\ spc' = "done"
                /\ UNCHANGED raised
    /\ UNCHANGED <<sanitized_text, processVars>>
    /\ SynthFrame

(***************************************************************************)
(* Specification of a synthesis request: main_cli or generate_audio is     *)
(* called once, in a process that has or has not loaded the model before.  *)
(***************************************************************************)
\* texts that sanitization shortens below, leaves at, or lengthens beyond
\* MAX_TEXT_LENGTH
LongTexts ==
    { <<"l">> \o Repeat(" ", MAX_TEXT_LENGTH),
      Repeat("l", MAX_TEXT_LENGTH),
      Repeat("l", MAX_TEXT_LENGTH + 1),
      [i \in 1..(MAX_TEXT_LENGTH \div 2 + 2) |->
          IF i % 2 = 1 THEN "U+2026" ELSE "l"] }

\* short raw texts of a request
SynthTexts ==
    UNION {[1..n -> Alphabet] : n \in 0..(MaxLen - 1)}
        \cup { <<"<", "l", ">">>, <<"l", "U+200D", "<", ">">>,
               <<"&", "l", "t", ";">>, <<"U+1100", "U+200D", "U+1161">> }

\* a request with nothing but the text (source is "file" or "direct")
PlainRequest(entry, source) ==
    [entry |-> entry, source |-> source, lang |-> "pt", sample_rate |-> JNull,
     speaker_wav |-> "None", speaker |-> <<>>]

\* the arguments in every combination
Requests ==
    [entry : {"cli", "ui"}, source : {"file", "unreadable"},
     lang : {"pt", "PT", "xx"},
     sample_rate : {JNull, JInt(24000), JInt(16000), JStr(<<"x">>)},
     speaker_wav : {"None", "exists", "missing"},
     speaker : {<<>>, <<"Ana">>, <<"ghost">>}]

\* model.languages and model.speakers of the object that TTS() yields
Engines ==
    { [languages |-> {}, speakers |-> {}],
      [languages |-> {"PT", "en"}, speakers |-> {"Ana", "random"}] }

\* the process has loaded the model before, and perhaps filled the caches
ProcessWarm ==
    /\ _TTS_INSTANCE = <<1>>
    /\ _LANGUAGES_CACHE \in {<<>>, <<_extract_languages(engine)>>}
    /\ _SPEAKERS_CACHE \in {<<>>, <<_extract_speakers(engine)>>}

InitSynth ==
    /\ \/ /\ text \in SynthTexts
          /\ \E entry \in {"cli", "ui"}, source \in {"file", "direct"} :
                 /\ entry = "cli" => source = "file"
                 /\ request = PlainRequest(entry, source)
          /\ engine \in Engines
          /\ ProcessOff \/ ProcessWarm
       \/ /\ text \in LongTexts
          /\ request \in {PlainRequest("cli", "file"), PlainRequest("ui", "file")}
          /\ engine = [languages |-> {}, speakers |-> {}]
          /\ ProcessOff
       \/ /\ text = <<"l", " ", ".">>
          /\ request \in Requests
          /\ request.entry = "cli" => request.sample_rate.t # "str"
          /\ engine \in Engines
          /\ ProcessOff \/ ProcessWarm
    /\ spc = IF request.entry = "cli" THEN "main_cli" ELSE "generate_audio"
    /\ sanitized = <<>> /\ call = <<>> /\ sanitized_text = <<>>
    /\ trace = <<>> /\ raised = <<>> /\ result = <<>>
    /\ SanitizerOff /\ VoiceOff /\ LimitOff /\ ThreadsOff /\ ToolsOff

NextSynth ==
    \/ MainCli
    \/ ExtractAndSanitize
    \/ CallSynthesize
    \/ Sanitize
    \/ EnsureLimit
    \/ GetAvailableLanguages
    \/ CheckArguments
    \/ GetModel
    \/ SelectSpeaker
    \/ TtsToFile

SpecSynth == InitSynth /\ [][NextSynth]_vars

(***************************************************************************)
(* app/interface.py: _get_voice_metadata called from the threads that run  *)
(* the callbacks _on_voice_change and synthesize.  A step is a statement   *)
(* or, inside line 23, the call and the store it is made of.               *)
(***************************************************************************)
Threads == 1..MaxThreads

\* the voices of VOICE_DIR
VoiceNames == {"faber", "amy"}

\* a thread outside its callback
Idle == [pc |-> "idle", handler |-> "", voice_name |-> "", loaded |-> <<>>]

\* the VoiceMetadata object that the k-th derivation for a name creates
VoiceMetadata(name, k) == [name |-> name, id |-> k]

\* what the statements of interface.py leave alone
CacheFrame ==
    UNCHANGED <<textVars, voiceVars, limitVars, synthVars, lockVars, toolVars>>

\* _on_voice_change line 59, synthesize line 85: _get_voice_metadata is called
CallGetVoiceMetadata(t) ==
    /\ callers[t].pc = "idle"
    /\ \E handler \in {"_on_voice_change", "synthesize"}, name \in VoiceNames :
           callers' = [callers EXCEPT ![t] =
                           [Idle EXCEPT !.pc = "check", !.handler = handler,
                                        !.voice_name = name]]
    /\ UNCHANGED <<_VOICE_CACHE, derived, received>>
    /\ CacheFrame

\* line 22: if voice_name not in _VOICE_CACHE
CheckVoiceCache(t) ==
    /\ callers[t].pc = "check"
    /\ callers' = [callers EXCEPT ![t].pc =
                       IF DictHas(_VOICE_CACHE, callers[t].voice_name)
                       THEN "return" ELSE "load"]
    /\ UNCHANGED <<_VOICE_CACHE, derived, received>>
    /\ CacheFrame

\* line 23, right-hand side: load_voice_metadata returns a new object or
\* raises
LoadVoiceMetadata(t) ==
    /\ callers[t].pc = "load"
    /\ LET name == callers[t].voice_name
       IN  \E readable \in BOOLEAN :
               IF readable
               THEN /\ derived' = [derived EXCEPT ![name] = @ + 1]
                    /\ callers' = [callers EXCEPT
                           ![t].pc = "store",
                           ![t].loaded = <<VoiceMetadata(name, derived[name] + 1)>>]
               ELSE /\ callers' = [callers EXCEPT ![t] = Idle]
                    /\ UNCHANGED derived
    /\ UNCHANGED <<_VOICE_CACHE, received>>
    /\ CacheFrame

\* line 23, the store: _VOICE_CACHE[voice_name] = ...
StoreVoiceMetadata(t) ==
    /\ callers[t].pc = "store"
    /\ _VOICE_CACHE' = DictSet(_VOICE_CACHE, callers[t].voice_name,
                               callers[t].loaded[1])
    /\ callers' = [callers EXCEPT ![t].pc = "return"]
    /\ UNCHANGED <<derived, received>>
    /\ CacheFrame

\* line 24: return _VOICE_CACHE[voice_name]; the callback goes on with the
\* object and ends
ReturnVoiceMetadata(t) ==
    /\ callers[t].pc = "return"
    /\ LET name     == callers[t].voice_name
           metadata == DictGet(_VOICE_CACHE, name)
       IN  /\ received' = [received EXCEPT ![name] = @ \cup {metadata}]
           /\ callers' = [callers EXCEPT ![t] = Idle]
    /\ UNCHANGED <<_VOICE_CACHE, derived>>
    /\ CacheFrame

\* build_interface line 161 has or has not looked up the default voice
\* before the callbacks are served
InitCache ==
    /\ \/ /\ _VOICE_CACHE = <<>>
          /\ derived = [name \in VoiceNames |-> 0]
          /\ received = [name \in VoiceNames |-> {}]
       \/ /\ _VOICE_CACHE =
                 << [key |-> "faber", value |-> VoiceMetadata("faber", 1)] >>
          /\ derived = [name \in VoiceNames |-> IF name = "faber" THEN 1 ELSE 0]
          /\ received = [name \in VoiceNames |->
                            IF name = "faber" THEN {VoiceMetadata("faber", 1)}
                            ELSE {}]
    /\ callers = [t \in Threads |-> Idle]
    /\ text = <<>> /\ SanitizerOff /\ VoiceOff /\ LimitOff /\ SynthOff /\ LockOff
    /\ ToolsOff

NextCache ==
    \/ \E t \in Threads : CallGetVoiceMetadata(t)
    \/ \E t \in Threads : CheckVoiceCache(t)
    \/ \E t \in Threads : LoadVoiceMetadata(t)
    \/ \E t \in Threads : StoreVoiceMetadata(t)
    \/ \E t \in Threads : ReturnVoiceMetadata(t)

SpecCache == InitCache /\ [][NextCache]_vars

(***************************************************************************)
(* coqui_xtts_app/app/main.py: get_tts, get_available_languages,           *)
(* get_available_speakers and synthesize_to_wav called from several        *)
(* threads.  A thread is at a line of main.py; stack holds the lines its   *)
(* callers go on from.  The checks of synthesize_to_wav that touch only    *)
(* its arguments are the subject of SpecSynth and are passed here.         *)
(***************************************************************************)
\* a thread outside main.py; failed tells that get_tts raised its
\* RuntimeError into the last call of the thread
Resting == [pc |-> "idle", stack |-> <<>>, made |-> <<>>, failed |-> FALSE]

\* the attributes of the model: the fallbacks apply
LoadedModel == [languages |-> {}, speakers |-> {}]

\* thread t goes to a line of the function it is in
Goto(t, line) == workers' = [workers EXCEPT ![t].pc = line]

\* thread t calls a function and goes on from line back when it returns
CallFrom(t, entry, back) ==
    workers' = [workers EXCEPT ![t].pc = entry, ![t].stack = <<back>> \o @]

\* thread t returns to its caller
ReturnFrom(t) ==
    workers' = [workers EXCEPT ![t].pc = Head(workers[t].stack),
                               ![t].stack = Tail(@), ![t].made = <<>>]

\* what the statements of main.py leave alone besides the process state
EngineFrame ==
    /\ UNCHANGED <<request, engine, spc, sanitized, call, sanitized_text, trace,
                   raised, result>>
    /\ UNCHANGED <<textVars, voiceVars, limitVars, cacheVars, toolVars>>

\* a caller enters get_tts, get_available_languages, get_available_speakers
\* or synthesize_to_wav (which starts, at line 118, with
\* get_available_languages)
CallOperation(t) ==
    /\ workers[t].pc = "idle"
    /\ \E entry \in {"get_tts", "get_available_languages",
                     "get_available_speakers", "synthesize_to_wav"} :
           LET first == CASE entry = "get_tts" -> "29"
                          [] entry = "get_available_speakers" -> "78"
                          [] OTHER -> "68"
               back  == IF entry = "synthesize_to_wav" THEN "135" ELSE "idle"
           IN  workers' = [workers EXCEPT ![t] =
                               [Resting EXCEPT !.pc = first, !.stack = <<back>>]]
    /\ UNCHANGED <<processVars, _MODEL_LOCK, constructed, obtained>>
    /\ EngineFrame

\* get_tts line 29: if _TTS_INSTANCE is None
OuterCheck(t) ==
    /\ workers[t].pc = "29"
    /\ Goto(t, IF _TTS_INSTANCE = <<>> THEN "30" ELSE "43")
    /\ UNCHANGED <<processVars, _MODEL_LOCK, constructed, obtained>>
    /\ EngineFrame

\* get_tts line 30: with _MODEL_LOCK
AcquireModelLock(t) ==
    /\ workers[t].pc = "30"
    /\ _MODEL_LOCK = <<>>
    /\ _MODEL_LOCK' = <<t>>
    /\ Goto(t, "31")
    /\ UNCHANGED <<processVars, constructed, obtained>>
    /\ EngineFrame

\* get_tts without the second check, under the lock
InnerCheck_Skipped(t) ==
    /\ workers[t].pc = "31"
    /\ Goto(t, "36")
    /\ UNCHANGED <<processVars, _MODEL_LOCK, constructed, obtained>>
    /\ EngineFrame

\* get_tts line 31: if _TTS_INSTANCE is None
InnerCheck(t) ==
    /\ workers[t].pc = "31"
    /\ Goto(t, IF _TTS_INSTANCE = <<>> THEN "36" ELSE "exit")
    /\ UNCHANGED <<processVars, _MODEL_LOCK, constructed, obtained>>
    /\ EngineFrame

\* get_tts with a lock that an exception does not release
ConstructModel_KeepsLock(t) ==
    /\ workers[t].pc = "36"
    /\ \E loads \in BOOLEAN :
           IF loads
           THEN /\ constructed' = constructed + 1
                /\ workers' = [workers EXCEPT ![t].pc = "store",
                                              ![t].made = <<constructed + 1>>]
                /\ UNCHANGED _MODEL_LOCK
           ELSE /\ workers' = [workers EXCEPT ![t] = [Resting EXCEPT !.failed = TRUE]]
                /\ UNCHANGED <<_MODEL_LOCK, constructed>>
    /\ UNCHANGED <<processVars, obtained>>
    /\ EngineFrame

\* get_tts lines 32-41, the constructor: it returns a new object, or it
\* raises, and the RuntimeError leaves the with block, which releases the
\* lock, and every caller
ConstructModel(t) ==
    /\ workers[t].pc = "36"
    /\ \E loads \in BOOLEAN :
           IF loads
           THEN /\ constructed' = constructed + 1
                /\ workers' = [workers EXCEPT ![t].pc = "store",
                                              ![t].made = <<constructed + 1>>]
                /\ UNCHANGED _MODEL_LOCK
           ELSE /\ workers' = [workers EXCEPT ![t] = [Resting EXCEPT !.failed = TRUE]]
                /\ _MODEL_LOCK' = <<>>
                /\ UNCHANGED constructed
    /\ UNCHANGED <<processVars, obtained>>
    /\ EngineFrame

\* get_tts line 36, the store: _TTS_INSTANCE = ...
AssignInstance(t) ==
    /\ workers[t].pc = "store"
    /\ _TTS_INSTANCE' = workers[t].made
    /\ Goto(t, "exit")
    /\ UNCHANGED <<_LANGUAGES_CACHE, _SPEAKERS_CACHE, _MODEL_LOCK, constructed,
                   obtained>>
    /\ EngineFrame

\* get_tts, the end of the with block: the lock is released
ReleaseModelLock(t) ==
    /\ workers[t].pc = "exit"
    /\ _MODEL_LOCK' = <<>>
    /\ Goto(t, "43")
    /\ UNCHANGED <<processVars, constructed, obtained>>
    /\ EngineFrame

\* get_tts line 43: return _TTS_INSTANCE
ReturnInstance(t) ==
    /\ workers[t].pc = "43"
    /\ obtained' = obtained \cup {_TTS_INSTANCE}
    /\ ReturnFrom(t)
    /\ UNCHANGED <<processVars, _MODEL_LOCK, constructed>>
    /\ EngineFrame

\* get_available_languages lines 68-69 and get_available_speakers lines
\* 78-79: the cache is filled through get_tts when it is None
CheckListCache(t) ==
    /\ workers[t].pc \in {"68", "78"}
    /\ LET cache == IF workers[t].pc = "68" THEN _LANGUAGES_CACHE
                    ELSE _SPEAKERS_CACHE
       IN  IF cache = <<>>
           THEN CallFrom(t, "29", IF workers[t].pc = "68" THEN "70" ELSE "80")
           ELSE ReturnFrom(t)
    /\ UNCHANGED <<processVars, _MODEL_LOCK, constructed, obtained>>
    /\ EngineFrame

\* get_available_languages lines 70-71 and get_available_speakers lines
\* 80-81: the list is stored and returned
StoreListCache(t) ==
    /\ workers[t].pc \in {"70", "80"}
    /\ IF workers[t].pc = "70"
       THEN /\ _LANGUAGES_CACHE' = <<_extract_languages(LoadedModel)>>
            /\ UNCHANGED _SPEAKERS_CACHE
       ELSE /\ _SPEAKERS_CACHE' = <<_extract_speakers(LoadedModel)>>
            /\ UNCHANGED _LANGUAGES_CACHE
    /\ ReturnFrom(t)
    /\ UNCHANGED <<_TTS_INSTANCE, _MODEL_LOCK, constructed, obtained>>
    /\ EngineFrame

\* synthesize_to_wav line 135: model = get_tts()
SynthesizeGetTts(t) ==
    /\ workers[t].pc = "135"
    /\ CallFrom(t, "29", "144")
    /\ UNCHANGED <<processVars, _MODEL_LOCK, constructed, obtained>>
    /\ EngineFrame

\* synthesize_to_wav lines 137-153: with a reference audio the speakers are
\* not looked up
SynthesizeSpeaker(t) ==
    /\ workers[t].pc = "144"
    /\ \E speaker_wav \in BOOLEAN :
           IF speaker_wav THEN Goto(t, "155") ELSE CallFrom(t, "78", "155")
    /\ UNCHANGED <<processVars, _MODEL_LOCK, constructed, obtained>>
    /\ EngineFrame

\* synthesize_to_wav lines 155-164: model.tts_to_file is entered
EnterTtsToFile(t) ==
    /\ workers[t].pc = "155"
    /\ Goto(t, "tts_to_file")
    /\ UNCHANGED <<processVars, _MODEL_LOCK, constructed, obtained>>
    /\ EngineFrame

\* synthesize_to_wav lines 165-174: model.tts_to_file returns or raises and
\* synthesize_to_wav ends
LeaveTtsToFile(t) ==
    /\ workers[t].pc = "tts_to_file"
    /\ workers' = [workers EXCEPT ![t] = Resting]
    /\ UNCHANGED <<processVars, _MODEL_LOCK, constructed, obtained>>
    /\ EngineFrame

\* a process that has not loaded the model (main_cli), or one that has
\* loaded it and listed the languages and the speakers (build_interface)
InitEngine ==
    /\ \/ ProcessOff /\ constructed = 0 /\ obtained = {}
       \/ /\ _TTS_INSTANCE = <<1>>
          /\ _LANGUAGES_CACHE = <<_extract_languages(LoadedModel)>>
          /\ _SPEAKERS_CACHE = <<_extract_speakers(LoadedModel)>>
          /\ constructed = 1 /\ obtained = {<<1>>}
    /\ _MODEL_LOCK = <<>>
    /\ workers = [t \in Threads |-> Resting]
    /\ text = <<>> /\ SanitizerOff /\ VoiceOff /\ LimitOff /\ RequestOff /\ CacheOff
    /\ ToolsOff

NextEngine ==
    \/ \E t \in Threads : CallOperation(t)
    \/ \E t \in Threads : OuterCheck(t)
    \/ \E t \in Threads : AcquireModelLock(t)
    \/ \E t \in Threads : InnerCheck(t)
    \/ \E t \in Threads : ConstructModel(t)
    \/ \E t \in Threads : AssignInstance(t)
    \/ \E t \in Threads : ReleaseModelLock(t)
    \/ \E t \in Threads : ReturnInstance(t)
    \/ \E t \in Threads : CheckListCache(t)
    \/ \E t \in Threads : StoreListCache(t)
    \/ \E t \in Threads : SynthesizeGetTts(t)
    \/ \E t \in Threads : SynthesizeSpeaker(t)
    \/ \E t \in Threads : EnterTtsToFile(t)
    \/ \E t \in Threads : LeaveTtsToFile(t)

SpecEngine == InitEngine /\ [][NextEngine]_vars

(***************************************************************************)
(* app/interface.py and app/tts.py: the voice and label dropdowns, the     *)
(* piper command that synthesize builds, and its polling of the piper      *)
(* process.                                                                *)
(***************************************************************************)
\* the configuration files of the voices of VOICE_DIR
VoiceConfig ==
    [name \in VoiceNames |->
        IF name = "faber"
        THEN [speaker_id_map |->
                  [t |-> "dict",
                   items |-> << [key |-> <<"a", "l", "i", "c", "e">>, value |-> JInt(0)],
                                [key |-> <<"b", "o", "b">>, value |-> JInt(1)] >>],
              num_speakers |-> JInt(2),
              inference |->
                  [t |-> "dict",
                   params |-> [k \in InferenceKeys |->
                                  CASE k = "length_scale" -> JFloat(1000000)
                                    [] k = "noise_w" -> JInt(0)
                                    [] OTHER -> JAbsent]]]
        ELSE [speaker_id_map |->
                  [t |-> "dict",
                   items |-> << [key |-> <<"b", "o", "b">>, value |-> JInt(0)],
                                [key |-> <<"c", "a", "r", "o", "l">>,
                                 value |-> JInt(1)] >>],
              num_speakers |-> JInt(2),
              inference |->
                  [t |-> "dict",
                   params |-> [k \in InferenceKeys |->
                                  CASE k = "noise_scale" -> JFloat(667000)
                                    [] OTHER -> JAbsent]]]]

\* what load_voice_metadata derives for each voice
Metadata ==
    [name \in VoiceNames |->
        parse_voice_config(name, VoiceConfig[name], NoTies).metadata[1]]

\* the dropdowns that hold a label
Dropdowns == {"speaker"} \cup Range(ParameterNames)

\* the mapping behind a dropdown: speaker_choices, or the values of the
\* numeric parameter, {} when the voice has none
MappingOf(metadata, dropdown) ==
    IF dropdown = "speaker" THEN metadata.speaker_choices
    ELSE IF DictHas(metadata.numeric_parameters, dropdown)
    THEN DictGet(metadata.numeric_parameters, dropdown).values
    ELSE <<>>

\* _dropdown_update_from_mapping and _numeric_dropdown_update: the value
\* each dropdown is given for a voice, <<>> for None
DropdownValues(metadata) ==
    [dropdown \in Dropdowns |->
        LET mapping == MappingOf(metadata, dropdown)
        IN  IF dropdown = "speaker"
            THEN IF mapping = <<>> THEN <<>>
                 ELSE IF metadata.default_speaker # <<>>
                         /\ DictHas(mapping, metadata.default_speaker[1])
                 THEN metadata.default_speaker
                 ELSE <<mapping[1].key>>
            ELSE IF DictHas(metadata.numeric_parameters, dropdown)
            THEN <<DictGet(metadata.numeric_parameters, dropdown).default_label>>
            ELSE <<>>]

\* synthesize line 87 and _resolve_numeric_value: the value the metadata
\* of the voice has for the label, <<>> for None
ResolveLabel(metadata, dropdown, label) ==
    IF label = <<>> \/ label[1] = <<>> THEN <<>>
    ELSE IF dropdown # "speaker" /\ ~DictHas(metadata.numeric_parameters, dropdown)
    THEN <<>>
    ELSE LET mapping == MappingOf(metadata, dropdown)
         IN  IF DictHas(mapping, label[1]) THEN <<DictGet(mapping, label[1])>>
             ELSE <<>>

\* str(i) of an int
StrInt(i) == (IF i < 0 THEN <<"-">> ELSE <<>>) \o IntDigits(Abs(i))

\* str(x) of a float in millionths: repr writes the shortest digits, with an
\* exponent below 0.0001
StrFloat(x) ==
    LET sign   == IF x < 0 THEN <<"-">> ELSE <<>>
        a      == Abs(x)
        digits == RStrip(IntDigits(a), "0")
        six    == [i \in 1..6 |-> DigitChar((a % 1000000) \div (10 ^ (6 - i)) % 10)]
        frac   == RStrip(six, "0")
    IN  IF a > 0 /\ a < 100
        THEN sign \o <<Head(digits)>>
                 \o (IF Len(digits) > 1 THEN <<".">> \o Tail(digits) ELSE <<>>)
                 \o <<"e", "-", "0", IF a < 10 THEN "6" ELSE "5">>
        ELSE sign \o IntDigits(a \div 1000000) \o <<".">>
                 \o (IF frac = <<>> THEN <<"0">> ELSE frac)

\* the flag of the piper command for a dropdown
FlagOf(dropdown) ==
    CASE dropdown = "speaker" -> "--speaker"
      [] dropdown = "length_scale" -> "--length_scale"
      [] dropdown = "noise_scale" -> "--noise_scale"
      [] dropdown = "noise_w" -> "--noise_w"

\* build_command testing the optional arguments for truth, so that 0 and
\* 0.0 are left out
build_command_SkipsZero(txt, model_path, config_path, output_file, value) ==
    LET Optional(dropdown) ==
            IF value[dropdown] # <<>> /\ value[dropdown][1] # 0
            THEN << [flag |-> FlagOf(dropdown),
                     value |-> IF dropdown = "speaker"
                               THEN StrInt(value[dropdown][1])
                               ELSE StrFloat(value[dropdown][1])] >>
            ELSE <<>>
    IN  << [flag |-> "--model", value |-> model_path],
           [flag |-> "--config", value |-> config_path],
           [flag |-> "--output_file", value |-> output_file],
           [flag |-> "--text", value |-> txt] >>
            \o Optional("speaker") \o Optional("length_scale")
            \o Optional("noise_scale") \o Optional("noise_w")

\* build_command: the flags after "piper" with their values; value holds
\* the four optional arguments, <<>> for None
build_command(txt, model_path, config_path, output_file, value) ==
    LET Optional(dropdown) ==
            IF value[dropdown] # <<>>
            THEN << [flag |-> FlagOf(dropdown),
                     value |-> IF dropdown = "speaker"
                               THEN StrInt(value[dropdown][1])
                               ELSE StrFloat(value[dropdown][1])] >>
            ELSE <<>>
    IN  << [flag |-> "--model", value |-> model_path],
           [flag |-> "--config", value |-> config_path],
           [flag |-> "--output_file", value |-> output_file],
           [flag |-> "--text", value |-> txt] >>
            \o Optional("speaker") \o Optional("length_scale")
            \o Optional("noise_scale") \o Optional("noise_w")

\* bounds of the piper process: the capacity of its stdout pipe and the most
\* output it writes, in the same unit
PipeCapacity == 2
MaxOutput == PipeCapacity + 1

\* the texts typed into the text box
PiperTexts == {<<>>, <<" ">>, <<" ", "a">>}

\* no request being served, and no piper process
NoJob ==
    [pc |-> "idle", text |-> <<>>, voice_name |-> "",
     labels |-> [dropdown \in Dropdowns |-> <<>>], command |-> <<>>,
     return_code |-> <<>>, killed |-> FALSE, error |-> "", result |-> <<>>]
NoChild == [status |-> "none", remaining |-> 0, pipe |-> 0, rc |-> 0]

PiperFrame == UNCHANGED <<textVars, voiceVars, limitVars, synthVars, cacheVars,
                          lockVars, threadVars, wav>>

\* the user picks another voice in voice_dropdown
ChangeVoice(v) ==
    /\ job.pc = "idle"
    /\ v # ui.voice_name
    /\ ui' = [ui EXCEPT !.voice_name = v, !.pending = TRUE]
    /\ UNCHANGED <<job, child>>
    /\ PiperFrame

\* _on_voice_change, run for voice_dropdown.change: the dropdowns take the
\* values of the new voice, or keep what they show when its metadata does
\* not load
OnVoiceChange ==
    /\ job.pc = "idle"
    /\ ui.pending
    /\ \E loads \in BOOLEAN :
          ui' = IF loads
                THEN [ui EXCEPT !.pending = FALSE, !.shown = ui.voice_name,
                                !.labels = DropdownValues(Metadata[ui.voice_name])]
                ELSE [ui EXCEPT !.pending = FALSE]
    /\ UNCHANGED <<job, child>>
    /\ PiperFrame

\* the user picks one of the choices a dropdown shows
PickLabel(dropdown) ==
    /\ job.pc = "idle"
    /\ ui.shown \in VoiceNames
    /\ \E i \in DOMAIN MappingOf(Metadata[ui.shown], dropdown) :
          ui' = [ui EXCEPT !.labels[dropdown] =
                               <<MappingOf(Metadata[ui.shown], dropdown)[i].key>>]
    /\ UNCHANGED <<job, child>>
    /\ PiperFrame

\* generate_button.click: synthesize is called with what the components hold
ClickGenerate ==
    /\ job.pc = "idle"
    /\ \E txt \in PiperTexts :
          job' = [NoJob EXCEPT !.pc = "77", !.text = txt,
                               !.voice_name = ui.voice_name, !.labels = ui.labels]
    /\ child' = NoChild
    /\ UNCHANGED ui
    /\ PiperFrame

\* an exception that leaves synthesize
RaiseFromSynthesize(error) == job' = [job EXCEPT !.pc = "done", !.error = error]

\* synthesize lines 77-83: VOICE_DIR exists and the text is not blank
ValidateRequest ==
    /\ job.pc = "77"
    /\ \E voice_dir \in BOOLEAN :
          IF ~voice_dir THEN RaiseFromSynthesize("gr.Error: voice directory")
          ELSE IF job.text = <<>> \/ Strip(job.text) = <<>>
          THEN RaiseFromSynthesize("gr.Error: text")
          ELSE job' = [job EXCEPT !.pc = "85"]
    /\ UNCHANGED <<ui, child>>
    /\ PiperFrame

\* synthesize lines 85-108: the metadata of the requested voice, the values
\* of the labels, the model paths and the command
BuildCommand ==
    /\ job.pc = "85"
    /\ \E found \in BOOLEAN :
          IF ~found THEN RaiseFromSynthesize("FileNotFoundError")
          ELSE LET metadata == Metadata[job.voice_name]
                   value == [dropdown \in Dropdowns |->
                                ResolveLabel(metadata, dropdown, job.labels[dropdown])]
               IN  job' = [job EXCEPT
                              !.pc = "113",
                              !.command = build_command(Strip(job.text),
                                              <<job.voice_name, ".onnx">>,
                                              <<job.voice_name, ".onnx", ".json">>,
                                              <<"tts_", ".wav">>, value)]
    /\ UNCHANGED <<ui, child>>
    /\ PiperFrame

\* synthesize lines 113-120: piper is started with stdout as a pipe
StartPiper ==
    /\ job.pc = "113"
    /\ \E started \in BOOLEAN :
          IF ~started
          THEN RaiseFromSynthesize("OSError") /\ UNCHANGED child
          ELSE /\ job' = [job EXCEPT !.pc = "124"]
               /\ \E output \in 0..MaxOutput :
                     child' = [status |-> "running", remaining |-> output,
                               pipe |-> 0, rc |-> 0]
    /\ UNCHANGED ui
    /\ PiperFrame

\* synthesize lines 124-129: poll() and the progress callback, either of
\* which may raise
PollPiper ==
    /\ job.pc = "124"
    /\ \E raises \in BOOLEAN :
          IF raises THEN job' = [job EXCEPT !.pc = "140", !.error = "Exception"]
          ELSE LET return_code == IF child.status = "exited" THEN <<child.rc>>
                                  ELSE <<>>
               IN  job' = [job EXCEPT !.return_code = return_code,
                                      !.pc = IF return_code # <<>> THEN "130"
                                             ELSE "139"]
    /\ UNCHANGED <<ui, child>>
    /\ PiperFrame

\* synthesize lines 130-138 without the check of the return code
Communicate_AnyReturnCode ==
    /\ job.pc = "130"
    /\ child' = [child EXCEPT !.pipe = 0]
    /\ job' = [job EXCEPT !.pc = "144"]
    /\ UNCHANGED ui
    /\ PiperFrame

\* synthesize lines 130-138: communicate() reads what the exited piper left
\* in the pipe; a return code other than 0 raises gr.Error
Communicate ==
    /\ job.pc = "130"
    /\ child' = [child EXCEPT !.pipe = 0]
    /\ job' = IF job.return_code[1] # 0
              THEN [job EXCEPT !.pc = "140", !.error = "gr.Error: synthesis"]
              ELSE [job EXCEPT !.pc = "144"]
    /\ UNCHANGED ui
    /\ PiperFrame

\* synthesize line 139: time.sleep(1.0), then the loop polls again
SleepThenPoll ==
    /\ job.pc = "139"
    /\ job' = [job EXCEPT !.pc = "124"]
    /\ UNCHANGED <<ui, child>>
    /\ PiperFrame

\* synthesize lines 140-142: process.kill(), then the exception is raised
\* again
KillAndRaise ==
    /\ job.pc = "140"
    /\ job' = [job EXCEPT !.pc = "done", !.killed = TRUE]
    /\ child' = IF child.status = "running"
                THEN [child EXCEPT !.status = "exited", !.rc = -9]
                ELSE child
    /\ UNCHANGED ui
    /\ PiperFrame

\* synthesize lines 144-149: the output path and the log are returned
ReturnOutput ==
    /\ job.pc = "144"
    /\ job' = [job EXCEPT !.pc = "done", !.result = <<"tts_", ".wav">>]
    /\ UNCHANGED <<ui, child>>
    /\ PiperFrame

\* the handler is over and the button serves the next click
HandlerDone ==
    /\ job.pc = "done"
    /\ job' = NoJob
    /\ child' = NoChild
    /\ UNCHANGED ui
    /\ PiperFrame

\* piper writes to its stdout, blocking while the pipe is full
PiperWrites ==
    /\ child.status = "running"
    /\ child.remaining > 0
    /\ child.pipe < PipeCapacity
    /\ child' = [child EXCEPT !.remaining = @ - 1, !.pipe = @ + 1]
    /\ UNCHANGED <<ui, job>>
    /\ PiperFrame

\* piper has written all its output and exits, with 0 or with an error code
PiperExits ==
    /\ child.status = "running"
    /\ child.remaining = 0
    /\ \E rc \in {0, 1} : child' = [child EXCEPT !.status = "exited", !.rc = rc]
    /\ UNCHANGED <<ui, job>>
    /\ PiperFrame

\* piper dies before it has written all its output
PiperCrashes ==
    /\ child.status = "running"
    /\ child.remaining > 0
    /\ child' = [child EXCEPT !.status = "exited", !.rc = 1]
    /\ UNCHANGED <<ui, job>>
    /\ PiperFrame

\* build_interface: the dropdowns start on the values of the default voice,
\* or hidden with no value when its metadata does not load
InitPiper ==
    /\ text = <<>>
    /\ SanitizerOff /\ VoiceOff /\ LimitOff /\ SynthOff /\ ThreadsOff
    /\ wav = <<>>
    /\ \E default_voice \in VoiceNames, loads \in BOOLEAN :
          ui = IF loads
               THEN [voice_name |-> default_voice, shown |-> default_voice,
                     pending |-> FALSE,
                     labels |-> DropdownValues(Metadata[default_voice])]
               ELSE [voice_name |-> default_voice, shown |-> "",
                     pending |-> FALSE, labels |-> NoJob.labels]
    /\ job = NoJob
    /\ child = NoChild

\* the steps of the parent: the handler of the button
HandlerStep ==
    \/ ValidateRequest \/ BuildCommand \/ StartPiper \/ PollPiper \/ Communicate
    \/ SleepThenPoll \/ KillAndRaise \/ ReturnOutput

NextPiper ==
    \/ \E v \in VoiceNames : ChangeVoice(v)
    \/ OnVoiceChange
    \/ \E dropdown \in Dropdowns : PickLabel(dropdown)
    \/ ClickGenerate
    \/ ValidateRequest
    \/ BuildCommand
    \/ StartPiper
    \/ PollPiper
    \/ Communicate
    \/ SleepThenPoll
    \/ KillAndRaise
    \/ ReturnOutput
    \/ HandlerDone
    \/ PiperWrites
    \/ PiperExits
    \/ PiperCrashes

\* the handler's thread keeps running, and a piper that can write or exit
\* does so; nothing forces a crash
SpecPiper == InitPiper /\ [][NextPiper]_vars /\ WF_vars(HandlerStep) /\ WF_vars(PiperWrites) /\ WF_vars(PiperExits)

(***************************************************************************)
(* coqui_tts_local.py: _salvar_audio_com_progresso writes the audio to a   *)
(* WAV file in chunks and logs the progress.                               *)
(***************************************************************************)
\* the most samples and channels of an audio array
MaxSamples == 90
MaxChannels == 2

\* the shapes of the array: <<n>> for one dimension, <<rows, columns>> for two
AudioShapes ==
    {<<n>> : n \in 0..MaxSamples}
        \cup {<<n, c>> : n \in 0..MaxSamples, c \in 0..MaxChannels}
        \cup {<<c, n>> : n \in 0..MaxSamples, c \in 0..MaxChannels}

\* the pairs <<fim, total>>, total up to 200, for which the float product
\* (fim / total) * 100 falls just below the whole number 100 * fim / total
FloatBelowWhole ==
    {<<29, 50>>, <<29, 100>>, <<57, 100>>, <<58, 100>>, <<87, 150>>, <<58, 200>>,
     <<114, 200>>, <<116, 200>>}

\* int((fim / total_amostras) * 100)
Percentual(fim, total_amostras) ==
    (100 * fim) \div total_amostras
        - (IF <<fim, total_amostras>> \in FloatBelowWhole THEN 1 ELSE 0)

WavFrame == UNCHANGED <<textVars, voiceVars, limitVars, synthVars, cacheVars,
                        lockVars, threadVars, piperVars>>

\* lines 74-81: the array is brought to the form (samples, channels)
ShapeAudio ==
    /\ wav.pc = "74"
    /\ LET shape == wav.shape
           dados == IF Len(shape) = 1 THEN <<shape[1], 1>>
                    ELSE IF shape[1] < shape[2] THEN <<shape[2], shape[1]>>
                    ELSE shape
       IN  wav' = [wav EXCEPT !.pc = "82", !.total_amostras = dados[1],
                              !.channels = dados[2]]
    /\ WavFrame

\* lines 82-93: no samples is a ValueError, and so is np.max of an array
\* without elements; otherwise the chunk size is set
PrepareAudio ==
    /\ wav.pc = "82"
    /\ wav' = IF wav.total_amostras = 0 \/ wav.channels = 0
              THEN [wav EXCEPT !.pc = "done", !.exc = "ValueError"]
              ELSE [wav EXCEPT !.pc = "95",
                               !.chunk = IF wav.total_amostras \div 40 > 1
                                         THEN wav.total_amostras \div 40 ELSE 1,
                               !.ultimo_percentual = -1]
    /\ WavFrame

\* lines 95-99: "0%" is logged and the WAV file is opened
OpenWav ==
    /\ wav.pc = "95"
    /\ \E opens \in BOOLEAN :
          wav' = IF opens
                 THEN [wav EXCEPT !.pc = "101", !.log = <<0>>, !.opened = TRUE,
                                  !.inicio = 0]
                 ELSE [wav EXCEPT !.pc = "done", !.log = <<0>>, !.exc = "OSError"]
    /\ WavFrame

\* the body of the loop with the test of line 106 on the step of 5 alone
WriteChunk_NoFinalPercent ==
    /\ wav.pc = "101"
    /\ wav.inicio < wav.total_amostras
    /\ LET sum        == wav.inicio + wav.chunk
           fim        == IF sum < wav.total_amostras THEN sum
                         ELSE wav.total_amostras
           percentual == Percentual(fim, wav.total_amostras)
           logs       == percentual >= wav.ultimo_percentual + 5
       IN  wav' = [wav EXCEPT
                      !.frames = @ \o [i \in 1..(fim - wav.inicio) |->
                                          wav.inicio + i - 1],
                      !.chunks = Append(@, <<wav.inicio, fim>>),
                      !.log = IF logs THEN Append(@, percentual) ELSE @,
                      !.logged_at = IF logs THEN Append(@, fim) ELSE @,
                      !.ultimo_percentual = IF logs THEN percentual ELSE @,
                      !.inicio = wav.inicio + wav.chunk]
    /\ WavFrame

\* lines 101-108: one turn of the loop over range(0, total_amostras, chunk):
\* the frames inicio..fim-1 are written and the percentage is logged when it
\* has grown by 5 or is 100
WriteChunk ==
    /\ wav.pc = "101"
    /\ wav.inicio < wav.total_amostras
    /\ LET sum        == wav.inicio + wav.chunk
           fim        == IF sum < wav.total_amostras THEN sum
                         ELSE wav.total_amostras
           percentual == Percentual(fim, wav.total_amostras)
           logs       == percentual >= wav.ultimo_percentual + 5
                             \/ percentual = 100
       IN  wav' = [wav EXCEPT
                      !.frames = @ \o [i \in 1..(fim - wav.inicio) |->
                                          wav.inicio + i - 1],
                      !.chunks = Append(@, <<wav.inicio, fim>>),
                      !.log = IF logs THEN Append(@, percentual) ELSE @,
                      !.logged_at = IF logs THEN Append(@, fim) ELSE @,
                      !.ultimo_percentual = IF logs THEN percentual ELSE @,
                      !.inicio = wav.inicio + wav.chunk]
    /\ WavFrame

\* line 103: writeframes fails, and the with statement closes the file
WriteFails ==
    /\ wav.pc = "101"
    /\ wav.inicio < wav.total_amostras
    /\ wav' = [wav EXCEPT !.pc = "done", !.exc = "OSError", !.opened = FALSE]
    /\ WavFrame

\* line 101: the range is exhausted and the with statement closes the file
CloseWav ==
    /\ wav.pc = "101"
    /\ wav.inicio >= wav.total_amostras
    /\ wav' = [wav EXCEPT !.pc = "done", !.opened = FALSE]
    /\ WavFrame

\* the call of line 164 with an audio array of some shape
InitWav ==
    /\ text = <<>>
    /\ SanitizerOff /\ VoiceOff /\ LimitOff /\ SynthOff /\ ThreadsOff /\ PiperOff
    /\ \E shape \in AudioShapes :
          wav = [pc |-> "74", shape |-> shape, total_amostras |-> 0,
                 channels |-> 0, chunk |-> 0, inicio |-> 0,
                 ultimo_percentual |-> -1, frames |-> <<>>, chunks |-> <<>>,
                 log |-> <<>>, logged_at |-> <<>>, opened |-> FALSE, exc |-> ""]

\* the steps that the function takes by itself
WavStep == ShapeAudio \/ PrepareAudio \/ OpenWav \/ WriteChunk \/ CloseWav

NextWav ==
    \/ ShapeAudio
    \/ PrepareAudio
    \/ OpenWav
    \/ WriteChunk
    \/ WriteFails
    \/ CloseWav

\* the function keeps running until it returns or raises
SpecWav == InitWav /\ [][NextWav]_vars /\ WF_vars(WavStep)

(***************************************************************************)
(* Properties of sanitize_text                                             *)
(***************************************************************************)
\* the outputs sanitize_text has produced so far
Outputs ==
    (IF tpc \in {"clean", "reclean"} THEN {cleaned} ELSE {})
        \cup (IF tpc = "reclean" THEN {recleaned} ELSE {})

\* C1: sanitize_text is idempotent, sanitize_text(sanitize_text(x)) =
\* sanitize_text(x) for every x, also when the first pass removes a dropped
\* character standing between two kept characters that compose under NFC.
C1_Idempotent == tpc = "reclean" => recleaned = cleaned

\* C2: every character of an output is a letter or number, a member of
\* ALLOWED_PUNCTUATION or a space; the output has no leading, trailing or
\* doubled space and none of "<", ">", "&", control characters or symbols.
C2_OutputCharacters ==
    \A out \in Outputs :
        /\ \A i \in 1..Len(out) :
               /\ \/ GeneralCategory(out[i]) \in
                        {"Lu", "Ll", "Lt", "Lm", "Lo", "Nd", "Nl", "No"}
                  \/ out[i] \in ALLOWED_PUNCTUATION
                  \/ out[i] = " "
               /\ out[i] \notin {"<", ">", "&"}
               /\ GeneralCategory(out[i]) \notin
                      {"Cc", "Cf", "Cs", "Co", "Cn", "Sm", "Sc", "Sk", "So"}
        /\ out # <<>> => out[1] # " " /\ out[Len(out)] # " "
        /\ \A i \in 1..(Len(out) - 1) : ~(out[i] = " " /\ out[i + 1] = " ")

\* a text with dropped characters has been sanitized to something non-empty
C2_Witness ==
    /\ tpc = "clean"
    /\ cleaned # <<>>
    /\ Range(text) \cap {"<", "&", "U+1F600", "U+200D", "U+0301"} # {}
    /\ Range(text) \cap {" ", "U+00A0"} # {}

Entries ==
    IF vpc = "parsed" /\ outcome.exc = ""
    THEN outcome.metadata[1].numeric_parameters
    ELSE <<>>

\* the configured default of parameter p as a float
DefaultOf(p) == FloatOf(config_data.inference.params[p])

\* C4: for every numeric default in config.inference, the NumericChoices
\* returned has default_label as a key of values.
C4_DefaultLabelIsKey ==
    \A i \in 1..Len(Entries) :
        DictHas(Entries[i].value.values, Entries[i].value.default_label)

\* a negative default, whose label is none of the ladder's, has been added
C4_Witness ==
    \E i \in 1..Len(Entries) :
        LET nc == Entries[i].value
        IN  /\ DefaultOf(Entries[i].key) < 0
            /\ Len(nc.values) = 2
            /\ nc.values[2].key = nc.default_label
            /\ nc.values[1].key = <<"0">>

\* C5: parse_voice_config never raises, whatever the configuration record
\* holds under speaker_id_map, num_speakers and inference.
C5_NeverRaises == vpc = "parsed" => outcome.exc = ""

\* C6: numeric_parameters has an entry for p exactly when inference is a
\* mapping and inference[p] is a JSON number (not a boolean); it has no
\* other key, and the entry of p does not depend on the other parameters.
C6_EntryIffJsonNumber ==
    vpc = "parsed" /\ outcome.exc = "" =>
        /\ Range(DictKeys(Entries)) \subseteq Range(ParameterNames)
        /\ \A p \in Range(ParameterNames) :
               /\ DictHas(Entries, p) <=>
                      /\ config_data.inference.t = "dict"
                      /\ config_data.inference.params[p].t \in {"int", "float"}
               /\ DictHas(Entries, p) =>
                      <<DictGet(Entries, p)>> =
                          _extract_numeric_choices(
                              [config_data EXCEPT !.inference.params =
                                  [k \in InferenceKeys |->
                                      IF k = p THEN @[k] ELSE JAbsent]],
                              p, halfway)

\* C7: every value stored in NumericChoices.values is >= 0, also for a
\* negative default.
C7_ValuesNonNegative ==
    \A i \in 1..Len(Entries) :
        \A j \in 1..Len(Entries[i].value.values) :
            Entries[i].value.values[j].value >= 0

\* C8: the value stored under default_label equals the configured default
\* exactly, also when the default has more than three decimal places.
C8_DefaultValueExact ==
    \A i \in 1..Len(Entries) :
        DictGet(Entries[i].value.values, Entries[i].value.default_label)
            = DefaultOf(Entries[i].key)

Sign(i) == IF i < 0 THEN 0 - 1 ELSE 1

\* x, in millionths, is a product p, in units of 1e-8, rounded to 5 places
IsRoundedTo5(x, p) ==
    /\ x % 10 = 0
    /\ Abs(100 * x - p) <= 500

\* label is the 3-decimal rendering of x without trailing zeros or point
IsLabelOf(label, x) ==
    /\ Abs(ParseFloat(label) - x) <= 500
    /\ ParseFloat(label) % 1000 = 0
    /\ "." \in Range(label) => label[Len(label)] \notin {"0", "."}
    /\ label # <<>>

Item(k, v) == [key |-> k, value |-> v]

\* C9: the generated candidates are max(0, round(d * f, 5)) for f in
\* 0.75, 0.9, 1.0, 1.1, 1.25, each with its 3-decimal label as a key of
\* values; d = 1.0 gives "0.75", "0.9", "1", "1.1", "1.25" with default
\* label "1", and d = 1.2 gives 0.9, 1.08, 1.2, 1.32, 1.5 with default
\* label "1.2".
C9_LadderCandidates ==
    \A i \in 1..Len(Entries) :
        LET d      == DefaultOf(Entries[i].key)
            nc     == Entries[i].value
            ladder == <<75, 90, 100, 110, 125>>
            made   == variations[Entries[i].key]
        IN  /\ Len(made) = 5
            /\ \A k \in 1..5 :
                   /\ \E x \in {Sign(d) * 10 * (Abs(d * ladder[k]) \div 1000 + up) :
                                  up \in {0, 1}} :
                          /\ IsRoundedTo5(x, d * ladder[k])
                          /\ made[k] = IF x > 0 THEN x ELSE 0
                   /\ \E j \in 1..Len(nc.values) :
                          /\ IsLabelOf(nc.values[j].key, made[k])
                          /\ nc.values[j].value = ParseFloat(nc.values[j].key)
            /\ d = 1000000 =>
                   nc = [values |-> << Item(<<"0", ".", "7", "5">>, 750000),
                                       Item(<<"0", ".", "9">>, 900000),
                                       Item(<<"1">>, 1000000),
                                       Item(<<"1", ".", "1">>, 1100000),
                                       Item(<<"1", ".", "2", "5">>, 1250000) >>,
                         default_label |-> <<"1">>]
            /\ d = 1200000 =>
                   nc = [values |-> << Item(<<"0", ".", "9">>, 900000),
                                       Item(<<"1", ".", "0", "8">>, 1080000),
                                       Item(<<"1", ".", "2">>, 1200000),
                                       Item(<<"1", ".", "3", "2">>, 1320000),
                                       Item(<<"1", ".", "5">>, 1500000) >>,
                         default_label |-> <<"1", ".", "2">>]

\* the ladder of the default 1.2 has been generated
C9_Witness ==
    \E i \in 1..Len(Entries) :
        /\ DefaultOf(Entries[i].key) = 1200000
        /\ variations[Entries[i].key] = <<900000, 1080000, 1200000, 1320000, 1500000>>
        /\ Len(Entries[i].value.values) = 5

\* C10: values has at least one and at most 6 entries.
C10_ValuesSize ==
    \A i \in 1..Len(Entries) :
        /\ Len(Entries[i].value.values) >= 1
        /\ Len(Entries[i].value.values) <= 6

\* five distinct ladder labels and the default's label after them
C10_Witness ==
    \E i \in 1..Len(Entries) :
        LET nc == Entries[i].value
        IN  /\ Len(nc.values) = 6
            /\ nc.values[6].key = nc.default_label
            /\ DefaultOf(Entries[i].key) > 0

\* C11: the generated entries of values are iterated in ascending numeric
\* order, whatever the lexicographic order of their labels; only the
\* default's label, when it is none of the generated labels, may be out of
\* order, and it is then the last entry.
C11_NumericOrder ==
    \A i \in 1..Len(Entries) :
        LET nc        == Entries[i].value
            vs        == nc.values
            n         == Len(vs)
            made      == variations[Entries[i].key]
            generated == {_format_float(made[m], halfway) : m \in 1..Len(made)}
            added     == /\ vs[n].key = nc.default_label
                         /\ nc.default_label \notin generated
            g         == IF added THEN n - 1 ELSE n
        IN  /\ \A j \in 1..g : vs[j].key \in generated
            /\ \A j \in 1..(g - 1) : vs[j].value < vs[j + 1].value
            /\ \A j \in 1..g : vs[j].value = ParseFloat(vs[j].key)

\* the ladder of 8.0 is iterated 6, 7.2, 8, 8.8, 10 although "10" sorts
\* before "6" as a string
C11_Witness ==
    \E i \in 1..Len(Entries) :
        /\ DefaultOf(Entries[i].key) = 8000000
        /\ DictKeys(Entries[i].value.values) =
               << <<"6">>, <<"7", ".", "2">>, <<"8">>, <<"8", ".", "8">>,
                  <<"1", "0">> >>

\* speaker_id_map is a non-empty mapping of labels to integers
IntegerSpeakerMap ==
    LET map == config_data.speaker_id_map
    IN  /\ map.t = "dict"
        /\ map.items # <<>>
        /\ \A i \in 1..Len(map.items) : map.items[i].value.t = "int"

\* the speaker_choices of the VoiceMetadata returned
SpeakerChoices == outcome.metadata[1].speaker_choices

\* the default_speaker of the VoiceMetadata returned: <<>> or <<label>>
DefaultSpeaker == outcome.metadata[1].default_speaker

\* C12: with a non-empty speaker_id_map of integer indices, speaker_choices
\* holds exactly the map's entries in ascending index order and
\* default_speaker is the label of the smallest index, the first declared
\* one when indices tie.
C12_SpeakerMapOrder ==
    vpc = "parsed" /\ IntegerSpeakerMap =>
        LET items == config_data.speaker_id_map.items
            least == CHOOSE i \in 1..Len(items) :
                         \A j \in 1..Len(items) :
                             \/ items[i].value.n < items[j].value.n
                             \/ items[i].value.n = items[j].value.n /\ i <= j
        IN  /\ outcome.exc = ""
            /\ Len(SpeakerChoices) = Len(items)
            /\ \A i \in 1..Len(items) :
                   \E j \in 1..Len(SpeakerChoices) :
                       SpeakerChoices[j] = Item(items[i].key, items[i].value.n)
            /\ \A j \in 1..(Len(SpeakerChoices) - 1) :
                   SpeakerChoices[j].value <= SpeakerChoices[j + 1].value
            /\ DefaultSpeaker = <<items[least].key>>

\* a map declared in descending index order has been sorted
C12_Witness ==
    /\ vpc = "parsed"
    /\ IntegerSpeakerMap
    /\ Len(config_data.speaker_id_map.items) = 2
    /\ config_data.speaker_id_map.items[1].value.n = 1
    /\ config_data.speaker_id_map.items[2].value.n = 0
    /\ DefaultSpeaker = <<config_data.speaker_id_map.items[2].key>>

\* speaker_id_map is a non-empty mapping
NonEmptySpeakerMap ==
    /\ config_data.speaker_id_map.t = "dict"
    /\ config_data.speaker_id_map.items # <<>>

\* C13: with an integer num_speakers = n > 1 and no non-empty
\* speaker_id_map, speaker_choices is "Speaker 0" .. "Speaker n-1" mapped to
\* 0 .. n-1 in that order and default_speaker is "Speaker 0".
C13_SpeakerCount ==
    /\ vpc = "parsed"
    /\ config_data.num_speakers.t = "int"
    /\ config_data.num_speakers.n > 1
    /\ ~NonEmptySpeakerMap
    => /\ outcome.exc = ""
       /\ SpeakerChoices =
              [i \in 1..config_data.num_speakers.n |->
                  Item(<<"S", "p", "e", "a", "k", "e", "r", " ">>
                           \o IntDigits(i - 1), i - 1)]
       /\ DefaultSpeaker = << <<"S", "p", "e", "a", "k", "e", "r", " ", "0">> >>

\* three speakers have been made for a speaker_id_map that is a list
C13_Witness ==
    /\ vpc = "parsed"
    /\ config_data.num_speakers = JInt(3)
    /\ config_data.speaker_id_map.t = "list"
    /\ Len(SpeakerChoices) = 3

\* C14: without a non-empty speaker_id_map and without an integer
\* num_speakers > 1, speaker_choices is empty and default_speaker absent; in
\* every result default_speaker is absent exactly when speaker_choices is
\* empty and is otherwise one of its keys.
C14_NoSpeakers ==
    vpc = "parsed" =>
        /\ ~NonEmptySpeakerMap
               /\ ~(config_data.num_speakers.t = "int"
                       /\ config_data.num_speakers.n > 1)
               => /\ outcome.exc = ""
                  /\ SpeakerChoices = <<>>
                  /\ DefaultSpeaker = <<>>
        /\ outcome.exc = "" =>
               /\ DefaultSpeaker = <<>> <=> SpeakerChoices = <<>>
               /\ DefaultSpeaker # <<>> =>
                      DictHas(SpeakerChoices, DefaultSpeaker[1])

\* num_speakers 1 and an empty speaker_id_map have given no speaker
C14_Witness ==
    /\ vpc = "parsed"
    /\ config_data.num_speakers = JInt(1)
    /\ config_data.speaker_id_map = [t |-> "dict", items |-> <<>>]
    /\ outcome.exc = ""
    /\ SpeakerChoices = <<>>
    /\ DefaultSpeaker = <<>>

(***************************************************************************)
(* Properties of ensure_text_within_limit                                  *)
(***************************************************************************)
\* C15: ensure_text_within_limit raises the ValueError exactly when
\* len(text) exceeds the limit, for every given limit, 0 included; without
\* a limit the limit is MAX_TEXT_LENGTH, and a text as long as the limit is
\* accepted.
C15_RaisesIffTooLong ==
    verdict \in {"None", "ValueError"} =>
        LET given == IF limit = <<>> THEN MAX_TEXT_LENGTH ELSE limit[1]
        IN  verdict = "ValueError" <=> Len(text) > given

(***************************************************************************)
(* Properties of a synthesis request                                       *)
(***************************************************************************)
\* the text is empty or has only whitespace and characters that
\* sanitize_text drops
Blank(t) ==
    \A i \in 1..Len(t) :
        \/ GeneralCategory(t[i]) \in {"Zs", "Cf", "So", "Mn", "Sm"}
        \/ t[i] = "&"

\* synthesize_to_wav has been called and is past its first check
PastSanitize == call # <<>> /\ spc # "sanitize"

\* generate_audio is past its first check
PastExtract == request # <<>> /\ request.entry = "ui" /\ spc # "generate_audio"

\* C16: for an empty, whitespace-only or entirely filtered input
\* sanitize_text yields the empty string and synthesize_to_wav fails with the
\* ValueError of the empty text, before the model is loaded and without a
\* call of tts_to_file; generate_audio reports the error and never calls
\* synthesize_to_wav.
C16_EmptyAfterSanitization ==
    /\ PastSanitize /\ Blank(call[1].text) => sanitized_text = <<>>
    /\ PastSanitize /\ sanitized_text = <<>> =>
           /\ spc = "done"
           /\ raised = <<[exc |-> "ValueError", why |-> "empty"]>>
           /\ result \in {<<"exit 2">>, <<"Erro">>}
           /\ trace = <<>>
    /\ PastExtract /\ request.source # "unreadable" /\ Blank(text) =>
           sanitized = <<>>
    /\ PastExtract /\ sanitized = <<>> =>
           /\ spc = "done"
           /\ result = <<"Erro">>
           /\ call = <<>>
           /\ trace = <<>>

\* main_cli was given a file of a no-break space and an emoji in a process
\* that has not loaded the model, and synthesize_to_wav has raised
C16_Witness ==
    /\ spc = "done"
    /\ request.entry = "cli"
    /\ text = <<"U+00A0", "U+1F600">>
    /\ raised = <<[exc |-> "ValueError", why |-> "empty"]>>
    /\ _TTS_INSTANCE = <<>>

\* the calls of tts_to_file so far
EngineCalls == {i \in 1..Len(trace) : trace[i].op = "tts_to_file"}

\* C17: the length guard runs after sanitization and on the sanitized text:
\* synthesize_to_wav never rejects a raw text longer than the limit whose
\* sanitized form is within the limit, and never passes to tts_to_file a text
\* longer than MAX_TEXT_LENGTH.
C17_GuardOnSanitizedText ==
    /\ raised # <<>> /\ raised[1].why = "too long" =>
           Len(sanitized_text) > MAX_TEXT_LENGTH
    /\ \A i \in EngineCalls :
           /\ trace[i].text = sanitized_text
           /\ Len(trace[i].text) <= MAX_TEXT_LENGTH

\* a raw text longer than the limit has been sanitized to a short one and
\* handed to the engine
C17_Witness ==
    /\ Len(text) > MAX_TEXT_LENGTH
    /\ \E i \in EngineCalls : trace[i].text = <<"l">>

(***************************************************************************)
(* Properties of _get_voice_metadata                                       *)
(***************************************************************************)
\* C18: for any interleaving of concurrent _get_voice_metadata calls for the
\* same voice name, load_voice_metadata derives the metadata at most once
\* for that name and all callers receive the same cached object.
C18_AtMostOneDerivation ==
    \A name \in VoiceNames :
        /\ derived[name] <= 1
        /\ Cardinality(received[name]) <= 1

(***************************************************************************)
(* Properties of get_tts and of the calls of tts_to_file                   *)
(***************************************************************************)
\* C19: for any interleaving of concurrent get_tts callers (directly or via
\* get_available_languages, get_available_speakers, synthesize_to_wav) the
\* TTS constructor completes successfully at most once per process,
\* _TTS_INSTANCE is never reassigned once it is not None, and every caller
\* that returns gets that same instance.
C19_InitialisedOnce ==
    /\ [](/\ constructed <= 1
          /\ Cardinality(obtained) <= 1
          /\ obtained \subseteq {_TTS_INSTANCE} \ {<<>>})
    /\ [][_TTS_INSTANCE # <<>> => _TTS_INSTANCE' = _TTS_INSTANCE]_vars

\* a thread that saw no instance at line 29 holds the lock at line 31 after
\* another thread has stored the instance
C19_Witness ==
    /\ constructed = 1
    /\ _TTS_INSTANCE # <<>>
    /\ \E t \in Threads : workers[t].pc = "31" /\ _MODEL_LOCK = <<t>>

\* the threads inside model.tts_to_file
InTtsToFile == {t \in Threads : workers[t].pc = "tts_to_file"}

\* C20: for any interleaving of concurrent synthesize_to_wav calls, at most
\* one thread at a time is executing model.tts_to_file on the shared model
\* instance.
C20_OneThreadInTtsToFile == Cardinality(InTtsToFile) <= 1

(***************************************************************************)
(* Properties of the voice cache over the life of the process              *)
(***************************************************************************)
\* C21: VoiceMetadata is cached per voice name and never changed after
\* creation: every object _get_voice_metadata has returned for a name is the
\* one the cache holds for it, an entry a thread has stored is not replaced
\* while the thread goes on to line 24, and nothing is stored for a name
\* whose configuration has not been read successfully.
C21_CachedForLife ==
    \A name \in VoiceNames :
        /\ DictHas(_VOICE_CACHE, name) =>
               /\ received[name] \subseteq {DictGet(_VOICE_CACHE, name)}
               /\ \A t \in Threads :
                      /\ callers[t].pc = "return"
                      /\ callers[t].voice_name = name
                      /\ callers[t].loaded # <<>>
                      => callers[t].loaded[1] = DictGet(_VOICE_CACHE, name)
        /\ derived[name] = 0 => ~DictHas(_VOICE_CACHE, name)

(***************************************************************************)
(* Properties of the call of the engine                                    *)
(***************************************************************************)
\* C24: synthesize_to_wav invokes tts_to_file at most once per call and only
\* after every validation has passed (sanitized text non-empty and within
\* the limit, language supported, sample rate None or in
\* SUPPORTED_SAMPLE_RATES, speaker_wav file existing when given); the
\* language passed is the lower-cased request language and is among the
\* available languages, and exactly one of speaker_wav and speaker is not
\* None in that call.
C24_EngineCalledOnceWhenValid ==
    /\ Cardinality(EngineCalls) <= 1
    /\ \A i \in EngineCalls :
           /\ trace[i].text # <<>>
           /\ Len(trace[i].text) <= MAX_TEXT_LENGTH
           /\ trace[i].language = Lower(call[1].lang)
           /\ trace[i].language \in _LANGUAGES_CACHE[1]
           /\ \/ call[1].sample_rate.t = "NoneType"
              \/ call[1].sample_rate.n \in SUPPORTED_SAMPLE_RATES
           /\ call[1].speaker_wav # "missing"
           /\ (trace[i].speaker_wav = <<>>) # (trace[i].speaker = <<>>)
           /\ trace[i].speaker_wav # <<>> <=> call[1].speaker_wav = "exists"

\* the command line asked for "PT" at 24000 Hz with a reference audio that
\* exists, and the engine has been called with it
C24_Witness ==
    /\ request # <<>> /\ request.entry = "cli"
    /\ request.lang = "PT"
    /\ request.sample_rate = JInt(24000)
    /\ request.speaker_wav = "exists"
    /\ \E i \in EngineCalls : trace[i].language = "pt" /\ trace[i].speaker = <<>>

\* C26: the UI path and the CLI path deliver the same text to the engine for
\* the same raw input: what synthesize_to_wav makes of the text that
\* generate_audio has sanitized equals sanitize_text(raw), which is what it
\* makes of the raw text main_cli hands it, so the engine receives the same
\* text and the length check decides alike on both paths.
C26_SameTextOnBothPaths ==
    request # <<>> /\ request.entry = "ui" /\ PastSanitize =>
        /\ sanitized_text = sanitized
        /\ \A i \in EngineCalls : trace[i].text = sanitized
        /\ spc \notin {"limit"} =>
               (raised # <<>> /\ raised[1].why = "too long"
                    <=> Len(sanitized) > MAX_TEXT_LENGTH)

(***************************************************************************)
(* Properties of a failed load                                             *)
(***************************************************************************)
\* the lines of get_tts inside the with block
InsideLock == {"31", "36", "store", "exit"}

\* C25: when loading the model fails inside get_tts, the RuntimeError leaves
\* _TTS_INSTANCE None (it is None until a constructor has returned) and
\* _MODEL_LOCK released: the lock is held only by a thread inside the with
\* block, never by a thread the error has left, and get_tts never returns
\* None, so a later call attempts the load again.
C25_FailedLoadLeavesNoTrace ==
    /\ constructed = 0 => _TTS_INSTANCE = <<>>
    /\ \A t \in Threads :
           /\ _MODEL_LOCK = <<t>> <=> workers[t].pc \in InsideLock
           /\ workers[t].failed =>
                  /\ workers[t].pc = "idle" /\ workers[t].stack = <<>>
                  /\ _MODEL_LOCK # <<t>>
    /\ <<>> \notin obtained

\* the load has failed in one thread, and another thread, which took the
\* lock after that, is at the constructor again
C25_Witness ==
    \E t, u \in Threads :
        /\ workers[t].failed
        /\ workers[u].pc = "36"
        /\ _MODEL_LOCK = <<u>>
        /\ _TTS_INSTANCE = <<>>

(***************************************************************************)
(* Properties of synthesize of app/interface.py                            *)
(***************************************************************************)
\* C22: synthesize returns the output path only when the piper process has
\* exited with return code 0; when the process exits with another code, or
\* an exception is raised inside the polling loop, process.kill() has been
\* called by the time the error leaves synthesize, and nothing is returned.
C22_OutputOnlyAfterCleanExit ==
    /\ job.result # <<>> =>
           /\ child.status = "exited" /\ child.rc = 0
           /\ job.return_code = <<0>> /\ job.error = ""
    /\ job.pc = "done" /\ job.error \in {"Exception", "gr.Error: synthesis"} =>
           job.killed /\ job.result = <<>>
    /\ job.pc \in {"144", "done"} /\ child.status = "exited" /\ child.rc # 0 =>
           job.killed /\ job.result = <<>>

C22_Witness ==
    /\ job.pc = "done"
    /\ job.return_code = <<1>>
    /\ job.error = "gr.Error: synthesis"
    /\ job.killed

\* C23: once synthesize polls a piper process that only has to write its
\* output and exit, the polling loop is left: the parent does not wait for
\* ever for a process blocked on its full stdout pipe.
C23_PollingLoopEnds == (job.pc = "124") ~> (job.pc \notin {"124", "130", "139"})

\* the labels of the request, the voice's own metadata and the command
FlagValues(dropdown) ==
    SelectSeq(job.command, LAMBDA entry : entry.flag = FlagOf(dropdown))
OwnValue(dropdown) ==
    LET metadata == Metadata[job.voice_name]
        label    == job.labels[dropdown]
        mapping  == IF dropdown = "speaker" THEN metadata.speaker_choices
                    ELSE IF DictHas(metadata.numeric_parameters, dropdown)
                    THEN DictGet(metadata.numeric_parameters, dropdown).values
                    ELSE <<>>
    IN  IF label # <<>> /\ label[1] # <<>> /\ DictHas(mapping, label[1])
        THEN <<DictGet(mapping, label[1])>>
        ELSE <<>>

\* C27: in the piper command each of --speaker, --length_scale,
\* --noise_scale and --noise_w is left out, or is there once with the value
\* that the metadata of the requested voice maps the selected label to, 0
\* and 0.0 included; a label that is no key of that voice leaves the flag out.
C27_FlagsFollowOwnMetadata ==
    job.command # <<>> =>
        \A dropdown \in Dropdowns :
            IF OwnValue(dropdown) = <<>> THEN FlagValues(dropdown) = <<>>
            ELSE /\ Len(FlagValues(dropdown)) = 1
                 /\ IF dropdown = "speaker"
                    THEN /\ IsDigits(FlagValues(dropdown)[1].value)
                         /\ DigitsValue(FlagValues(dropdown)[1].value)
                                = OwnValue(dropdown)[1]
                    ELSE ParseFloat(FlagValues(dropdown)[1].value)
                             = OwnValue(dropdown)[1]

C27_Witness ==
    /\ job.pc = "113"
    /\ job.voice_name = "amy" /\ ui.shown = "faber"
    /\ job.labels["speaker"] = << <<"b", "o", "b">> >>
    /\ job.labels["length_scale"] # <<>>
    /\ FlagValues("speaker") = << [flag |-> "--speaker", value |-> <<"0">>] >>
    /\ FlagValues("length_scale") = <<>>

(***************************************************************************)
(* Properties of _salvar_audio_com_progresso                               *)
(***************************************************************************)
\* the audio has no samples
ZeroSamples ==
    \/ wav.shape[1] = 0
    \/ Len(wav.shape) = 2 /\ wav.shape[2] = 0

\* max(1, total // 40) for the samples of the audio
ChunkSize ==
    LET total == IF Len(wav.shape) = 1 \/ wav.shape[1] >= wav.shape[2]
                 THEN wav.shape[1] ELSE wav.shape[2]
    IN  IF total \div 40 > 1 THEN total \div 40 ELSE 1

\* what is written and logged so far: the frames in order without gaps, the
\* chunks one after the other from frame 0, the percentages growing, 100
\* only with the chunk that ends the audio
WrittenInOrder ==
    /\ wav.frames = [i \in 1..Len(wav.frames) |-> i - 1]
    /\ \A i \in 1..Len(wav.chunks) :
          /\ wav.chunks[i][1] = IF i = 1 THEN 0 ELSE wav.chunks[i - 1][2]
          /\ wav.chunks[i][1] < wav.chunks[i][2]
          /\ wav.chunks[i][2] <= wav.total_amostras
    /\ wav.chunks # <<>> => Len(wav.frames) = wav.chunks[Len(wav.chunks)][2]
    /\ \A i \in 1..(Len(wav.log) - 1) : wav.log[i] < wav.log[i + 1]
    /\ \A i \in 2..Len(wav.log) :
          wav.log[i] = 100 => wav.logged_at[i - 1] = wav.total_amostras

\* the function has returned: every frame is in the file and 100 was logged
\* once, as the last percentage
AllWritten ==
    wav.pc = "done" /\ wav.exc = "" =>
        /\ Len(wav.frames) = wav.total_amostras
        /\ wav.log[Len(wav.log)] = 100
        /\ Cardinality({i \in 1..Len(wav.log) : wav.log[i] = 100}) = 1

\* no samples: ValueError, and the file was never opened
NoSamplesNoFile ==
    ZeroSamples =>
        /\ ~wav.opened /\ wav.log = <<>> /\ wav.chunks = <<>>
        /\ wav.pc = "done" => wav.exc = "ValueError"

\* C28 as stated: the loop ends for every audio with samples and writes every
\* frame once, in order, in contiguous chunks each of size
\* max(1, total // 40); the logged percentages are strictly increasing and
\* 100 is logged once, on the last chunk; no samples raises ValueError before
\* the WAV file is opened.
C28_EveryChunkOfChunkSize ==
    /\ <>(wav.pc = "done")
    /\ [](/\ WrittenInOrder /\ AllWritten /\ NoSamplesNoFile
          /\ \A i \in 1..Len(wav.chunks) :
                wav.chunks[i][2] - wav.chunks[i][1] = ChunkSize)

\* C28, amended: as above, but only the chunks before the last have the size
\* max(1, total // 40); the last chunk has what is left, between 1 frame and
\* that size.
C28_ChunkedWrite ==
    /\ <>(wav.pc = "done")
    /\ [](/\ WrittenInOrder /\ AllWritten /\ NoSamplesNoFile
          /\ \A i \in 1..Len(wav.chunks) :
                IF wav.chunks[i][2] < wav.total_amostras
                THEN wav.chunks[i][2] - wav.chunks[i][1] = ChunkSize
                ELSE wav.chunks[i][2] - wav.chunks[i][1] \in 1..ChunkSize)

C28_Witness ==
    /\ wav.pc = "done" /\ wav.exc = ""
    /\ wav.total_amostras = 81
    /\ Len(wav.chunks) = 41
    /\ wav.chunks[41] = <<80, 81>>
    /\ wav.log[Len(wav.log)] = 100

====
